---- MODULE Spec2Model ----
(***************************************************************************)
(* Steno browser extension: the replay coordinator of the service worker   *)
(* (background.js), the replay engine and the step recorder of the content *)
(* script (content.js).                                                    *)
(*                                                                         *)
(* The service worker is single threaded: every event it receives (a       *)
(* runtime message of a content script, a tabs.onUpdated notification) is  *)
(* handled to completion before the next one.  The events are kept in one  *)
(* queue, toBg, in the order the browser dispatched them.                  *)
(* A content script runs between its awaits without interruption; the     *)
(* model has one action per stretch of code between two awaits.            *)
(***************************************************************************)
EXTENDS Integers, Sequences, FiniteSets, TLC

VARIABLES
  \* service worker (background.js)
  replayState,            \* <<>> (null) or <<[tabId, steps, lastCompletedIndex, originHostname]>>
  pendingReplayResults,   \* <<>> (null) or <<[filled, clicked, skipped, warnings, aborted]>>
  timers,                 \* closures of the setTimeout of the navigation listener
  toBg,                   \* events dispatched to the service worker, oldest first
  capturedFieldCount,
  \* browser tabs
  tabHost,                \* hostname of the tab's URL
  tabLoading,             \* TRUE until the tab reports status 'complete'
  ctxAlive,               \* TRUE when a content script lives in the tab's page
  passes,                 \* the replayScript calls running in the tab's page
  script,                 \* the stored script the popup replays (its fields)
  \* content script: recorder
  recording,
  fieldOrder,
  capturedFields,
  returned,               \* the fields of the tab's last STOP_RECORDING response
  appended,               \* observation: the steps pushed since the last start
  clicks,                 \* observation: clicks on click targets since the last start
  sent,                   \* observation: capture events sent since the last start
  \* service worker and popup: recording
  recordingTabId,         \* 0 (null) or the tab the popup started recording in
  pendingFields,          \* <<>> (null) or <<fields>> stashed by an overlay stop
  activeTab,              \* the active tab of the window
  popupView,              \* "closed" or the view the open popup shows
  popupFields,            \* the popup's capturedFields
  \* the page of the tab
  checked,                \* the checked state of the page's checkboxes
  dispatched,             \* the events the last setValue call dispatched
  \* a document and the selector of one of its elements
  doc,                    \* the elements under body, in document order
  target,                 \* 0, or the element getSelector was called with
  result,                 \* what that call returned
  fillEl,                 \* the element setValue is called on
  fillCall,               \* observation: the last setValue call on it
  \* chrome.storage.local and the services of the service worker
  local,                  \* the entries of chrome.storage.local
  now,                    \* the clock new Date() reads
  lastCall,               \* observation: the last StorageService call
  token,                  \* ApiService._token, "" for null
  user,                   \* ApiService._user, "" for null
  inflight,               \* the network requests of ApiService.fetch not answered yet
  lastApi,                \* observation: the last ApiService call
  \* content script: one call of waitForElement or waitForDomSettle
  wait,                   \* the closure of the call and what it has resolved with
  present,                \* TRUE when the page has an element the selector matches
  \* StorageService calls that have read storage and not written yet
  calls,                  \* per call: its operation, its id and what it read
  \* service worker: STOP_RECORDING messages of the overlay handler not answered yet
  stopSent,               \* the tabs they were sent to
  \* observation only (never read by an action of the program)
  processed,              \* steps the passes of the current replay went through
  stepLog,                \* observation: the indexes of those steps, in order
  lastEvt,                \* which branch the service worker took last
  inputLog,               \* per selector: the input events seen by the recorder
  navCount,
  replayCount,
  eventCount

coordVars == <<replayState, pendingReplayResults, timers, toBg, capturedFieldCount>>
tabVars   == <<tabHost, tabLoading, ctxAlive, passes, script>>
recVars   == <<recording, fieldOrder, capturedFields, returned, appended, clicks,
               sent, inputLog, eventCount>>
uiVars    == <<recordingTabId, pendingFields, activeTab, popupView, popupFields>>
\* what most actions leave alone
pageVars  == <<checked, dispatched>>
domVars   == <<doc, target, result, fillEl, fillCall>>
storeVars == <<local, now, lastCall>>
apiVars   == <<token, user, inflight, lastApi>>
waitVars  == <<wait, present>>
syncVars  == <<calls, stopSent>>
svcVars   == <<storeVars, apiVars, waitVars, syncVars>>
otherVars == <<uiVars, pageVars, domVars, svcVars>>
obsVars   == <<processed, stepLog, lastEvt, navCount, replayCount>>
vars      == <<coordVars, tabVars, recVars, obsVars, otherVars>>

-----------------------------------------------------------------------------
(* Bounds of the model *)

MaxSteps    == 3     \* steps of a script replayed within one page
MaxNavSteps == 2     \* steps of a script replayed across navigations
MaxNavs     == 1     \* navigations of a tab in one behaviour
MaxReplays  == 2     \* replays started from the popup in one behaviour
MaxEvents   == 4     \* DOM events delivered to the recorder in one behaviour

AllTabs    == {1, 2}
ReplayTabs == {1}
Hosts      == {"a.com", "b.com"}
OriginHost == "a.com"

-----------------------------------------------------------------------------
(* Steps and scripts *)

StepActions == {"fill", "click"}

\* order values of a stored script need not be contiguous
OrderOf(k) == 2 * k + 1

MkStep(k, a) ==
  IF a = "click"
  THEN [order |-> OrderOf(k), action |-> "click", selector |-> <<"sel", k>>,
        label |-> <<"lbl", k>>]
  ELSE [order |-> OrderOf(k), action |-> "fill", selector |-> <<"sel", k>>,
        label |-> <<"lbl", k>>, value |-> <<"val", k>>, type |-> "text"]

InOrder(acts) == [k \in 1..Len(acts) |-> MkStep(k, acts[k])]

\* the checkboxes of the page, by selector
Checkboxes == { <<"box", 1>>, <<"box", 2>> }

\* a checkbox step as the recorder stores it: value is el.checked
MkCheckbox(k, box, v) ==
  [order |-> OrderOf(k), action |-> "fill", selector |-> box,
   label |-> <<"lbl", k>>, value |-> v, type |-> "checkbox"]

\* what a step of a form script does: a click, a text fill, or a checkbox fill
FormSteps(k) ==
  { MkStep(k, a) : a \in StepActions }
    \cup { MkCheckbox(k, box, v) : box \in Checkboxes, v \in BOOLEAN }

\* stored in order, n steps
FormScripts(n) ==
  { f \in [1..n -> UNION { FormSteps(k) : k \in 1..n }] :
      \A k \in 1..n : f[k] \in FormSteps(k) }

MaxFormSteps == 2

FormScriptsUpTo(max) == UNION { FormScripts(n) : n \in 0..max }

Reverse(s) == [k \in 1..Len(s) |-> s[Len(s) + 1 - k]]

Rotate(s) == IF s = <<>> THEN s ELSE Append(Tail(s), Head(s))

\* the storage orders a script's steps are offered in
StorageOrders(s) == {s, Reverse(s), Rotate(s)}

ScriptsUpTo(max) ==
  UNION { UNION { StorageOrders(InOrder(a)) : a \in [1..n -> StepActions] }
          : n \in 0..max }

\* [...fields].sort((a, b) => a.order - b.order): a stable ascending sort
RECURSIVE InsertByOrder(_, _)
InsertByOrder(x, s) ==
  IF s = <<>> THEN <<x>>
  ELSE IF x.order < Head(s).order THEN <<x>> \o s
  ELSE <<Head(s)>> \o InsertByOrder(x, Tail(s))

RECURSIVE SortFrom(_, _)
SortFrom(s, acc) ==
  IF s = <<>> THEN acc ELSE SortFrom(Tail(s), InsertByOrder(Head(s), acc))

\* (mutation: the defensive sort left out)
SortByOrderMissing(fields) == fields

SortByOrder(fields) == SortFrom(fields, <<>>)

-----------------------------------------------------------------------------
(* Result reports *)

EmptyReport == [filled |-> 0, clicked |-> 0, skipped |-> 0, warnings |-> <<>>,
                aborted |-> FALSE]

\* (mutation: the reported counts and warnings are added to a stored report)
AddedToStored(results) ==
  IF pendingReplayResults = <<>>
  THEN [filled |-> results.filled, clicked |-> results.clicked,
        skipped |-> results.skipped, warnings |-> results.warnings, aborted |-> FALSE]
  ELSE [filled |-> pendingReplayResults[1].filled + results.filled,
        clicked |-> pendingReplayResults[1].clicked + results.clicked,
        skipped |-> pendingReplayResults[1].skipped + results.skipped,
        warnings |-> pendingReplayResults[1].warnings \o results.warnings,
        aborted |-> pendingReplayResults[1].aborted]

\* { ...(msg.results || {}) }: lastIndex is copied too but never read again
CopyOf(results) ==
  [filled |-> results.filled, clicked |-> results.clicked,
   skipped |-> results.skipped, warnings |-> results.warnings,
   aborted |-> FALSE]

HasSession == replayState /= <<>>
Session    == replayState[1]
HasReport  == pendingReplayResults /= <<>>
Report     == pendingReplayResults[1]

-----------------------------------------------------------------------------
(* Content script: replayScript(fields, startIndex) *)

\* const results = {...}; const sorted = [...fields].sort(...); i = startIndex
\* log: what the pass did, in order (observation only)
TickMs == 75        \* the length of one tick of the model's clock

ElementWaitMs == 3000
ClickQuietMs  == 300
FillQuietMs   == 150

\* setTimeout(cb, ms): the ticks that go by before the timer fires
Ticks(ms) == (ms + TickMs - 1) \div TickMs

\* waitForDomSettle(300) after a click, waitForDomSettle(150) after a fill
QuietMs(step) == IF step.action = "click" THEN ClickQuietMs ELSE FillQuietMs

\* timer: the ticks left of the setTimeout of the wait the pass is in
NewPass(fields, startIndex) ==
  [sorted |-> SortByOrder(fields), i |-> startIndex, pc |-> "wait",
   timer |-> Ticks(ElementWaitMs),
   startIndex |-> startIndex, log |-> <<>>,
   results |-> [filled |-> 0, clicked |-> 0, skipped |-> 0, warnings |-> <<>>,
                lastIndex |-> startIndex]]

StepOf(pass) == pass.sorted[pass.i + 1]

InLoop(pass) == pass.i < Len(pass.sorted)

Warning(step) == <<step.selector, step.label>>

Seen(pass, kind) ==
  [kind |-> kind, idx |-> pass.i, order |-> StepOf(pass).order]

SetPass(t, p, pass) == passes' = [passes EXCEPT ![t][p] = pass]

RemoveAt(s, p) == [k \in 1..(Len(s) - 1) |-> IF k < p THEN s[k] ELSE s[k + 1]]

\* .then((results) => chrome.runtime.sendMessage({type: 'REPLAY_FINISHED', ...}))
Finished(t, results) ==
  [type |-> "REPLAY_FINISHED", tab |-> t, results |-> results]

\* the loop condition: the pass goes on, or the loop has ended and the pass
\* returns its results in the same turn; queue is toBg with what the turn
\* has sent so far
Proceed(t, p, pass, queue) ==
  IF InLoop(pass)
  THEN /\ SetPass(t, p, pass)
       /\ toBg' = queue
  ELSE /\ passes' = [passes EXCEPT ![t] = RemoveAt(@, p)]
       /\ toBg' = Append(queue, Finished(t, pass.results))

\* (mutation: a missing element ends the pass)
AfterSkipStop(pass) == Len(pass.sorted)

\* continue: the loop goes on with the next index
AfterSkip(pass) == pass.i + 1

\* waitForElement resolved null: skip the step and go on with the next one
ElementNotFound(t, p) ==
  LET pass == passes[t][p] IN
  /\ pass.pc = "wait" /\ InLoop(pass)
  /\ Proceed(t, p, [pass EXCEPT
       !.results.skipped = @ + 1,
       !.results.warnings = Append(@, Warning(StepOf(pass))),
       !.results.lastIndex = pass.i,
       !.i = AfterSkip(pass),
       !.timer = Ticks(ElementWaitMs),
       !.log = Append(@, Seen(pass, "skip"))], toBg)
  /\ processed' = processed + 1
  /\ stepLog' = Append(stepLog, pass.i)
  /\ UNCHANGED <<replayState, pendingReplayResults, timers, capturedFieldCount,
                 tabHost, tabLoading, ctxAlive, script, recVars,
                 lastEvt, navCount, replayCount, otherVars>>

ProgressMsg(t, pass) ==
  [type |-> "REPLAY_PROGRESS", tab |-> t, lastCompletedIndex |-> pass.i]

\* (mutation: the click is performed first and the progress reported after it)
ClickThenReport(pass) == <<Seen(pass, "click"), Seen(pass, "progress")>>

\* chrome.runtime.sendMessage({type: 'REPLAY_PROGRESS', ...}); el.click()
ReportThenClick(pass) == <<Seen(pass, "progress"), Seen(pass, "click")>>

\* waitForElement resolved an element of a click step
ElementFoundClick(t, p) ==
  LET pass == passes[t][p] IN
  /\ pass.pc = "wait" /\ InLoop(pass)
  /\ StepOf(pass).action = "click"
  /\ toBg' = Append(toBg, ProgressMsg(t, pass))
  /\ SetPass(t, p, [pass EXCEPT
       !.results.clicked = @ + 1,
       !.results.lastIndex = pass.i,
       !.pc = "settle",
       !.timer = Ticks(QuietMs(StepOf(pass))),
       !.log = @ \o ReportThenClick(pass)])
  /\ processed' = processed + 1
  /\ stepLog' = Append(stepLog, pass.i)
  /\ UNCHANGED <<replayState, pendingReplayResults, timers, capturedFieldCount,
                 tabHost, tabLoading, ctxAlive, script, recVars,
                 lastEvt, navCount, replayCount, otherVars>>

\* (mutation: the checkbox is set and its events dispatched on every call)
CheckboxChangesAlways(current, value) == TRUE

\* if (el.checked !== value)
CheckboxChanges(current, value) == current /= value

\* setValue(el, value, type) on the element that the step's selector found
SetValue(t, step) ==
  IF step.type = "checkbox"
  THEN IF CheckboxChanges(checked[t][step.selector], step.value)
       THEN /\ checked' = [checked EXCEPT ![t][step.selector] = step.value]
            /\ dispatched' = [dispatched EXCEPT ![t] = <<"change", "input">>]
       ELSE /\ dispatched' = [dispatched EXCEPT ![t] = <<>>]
            /\ UNCHANGED checked
  ELSE /\ dispatched' = [dispatched EXCEPT ![t] =
                            IF step.type \in {"radio", "select"}
                            THEN <<"change", "input">>
                            ELSE <<"input", "change">>]
       /\ UNCHANGED checked

\* waitForElement resolved an element of a fill step: setValue(el, value, type)
ElementFoundFill(t, p) ==
  LET pass == passes[t][p] IN
  /\ pass.pc = "wait" /\ InLoop(pass)
  /\ StepOf(pass).action /= "click"
  /\ SetValue(t, StepOf(pass))
  /\ SetPass(t, p, [pass EXCEPT
       !.results.filled = @ + 1,
       !.results.lastIndex = pass.i,
       !.pc = "settle",
       !.timer = Ticks(QuietMs(StepOf(pass))),
       !.log = Append(@, Seen(pass, "fill"))])
  /\ processed' = processed + 1
  /\ stepLog' = Append(stepLog, pass.i)
  /\ UNCHANGED <<coordVars, tabHost, tabLoading, ctxAlive, script, recVars,
                 lastEvt, navCount, replayCount, uiVars, domVars, svcVars>>

\* waitForDomSettle resolved: i++
DomSettled(t, p) ==
  LET pass == passes[t][p] IN
  /\ pass.pc = "settle"
  /\ Proceed(t, p, [pass EXCEPT !.i = @ + 1, !.pc = "wait",
                                 !.timer = Ticks(ElementWaitMs)], toBg)
  /\ UNCHANGED <<replayState, pendingReplayResults, timers, capturedFieldCount,
                 tabHost, tabLoading, ctxAlive, script, recVars, obsVars, otherVars>>

\* the timer of the pass's wait has fired
Elapsed(t, p) == passes[t][p].timer = 0

\* time goes by for the timer of the pass's wait
Tick(t, p) ==
  /\ passes[t][p].timer > 0
  /\ SetPass(t, p, [passes[t][p] EXCEPT !.timer = @ - 1])
  /\ UNCHANGED <<coordVars, tabHost, tabLoading, ctxAlive, script, recVars,
                 obsVars, otherVars>>

\* (mutation: a mutation leaves the quiet timer running)
KeepTimer(left, quietMs) == left

\* clearTimeout(timer); timer = setTimeout(..., quietMs)
RestartTimer(left, quietMs) == Ticks(quietMs)

\* waitForDomSettle's observer sees a mutation of the page before the quiet
\* timer has fired
SettleMutation(t, p) ==
  LET pass == passes[t][p] IN
  /\ pass.pc = "settle"
  /\ pass.timer > 0
  /\ SetPass(t, p, [pass EXCEPT
       !.timer = RestartTimer(@, QuietMs(StepOf(pass)))])
  /\ UNCHANGED <<coordVars, tabHost, tabLoading, ctxAlive, script, recVars,
                 obsVars, otherVars>>

\* the REPLAY_SCRIPT and CONTINUE_REPLAY handlers call replayScript
StartPass(t, fields, startIndex, queue) ==
  LET pass == NewPass(fields, startIndex) IN
  IF InLoop(pass)
  THEN /\ passes' = [passes EXCEPT ![t] = Append(@, pass)]
       /\ toBg' = queue
  ELSE /\ passes' = passes
       /\ toBg' = Append(queue, Finished(t, pass.results))

-----------------------------------------------------------------------------
(* Service worker: chrome.runtime.onMessage handlers of the replay signals *)

IsHead(type) == toBg /= <<>> /\ Head(toBg).type = type

Consume == toBg' = Tail(toBg)

\* REPLAY_STARTED: a new session replaces whatever session there was
OnReplayStarted ==
  /\ IsHead("REPLAY_STARTED")
  /\ Consume
  /\ replayState' = <<[tabId |-> Head(toBg).tab, steps |-> Head(toBg).fields,
                       lastCompletedIndex |-> -1,
                       originHostname |-> Head(toBg).host]>>
  /\ lastEvt' = "started"
  /\ UNCHANGED <<pendingReplayResults, timers, capturedFieldCount, tabVars, recVars,
                 processed, stepLog, navCount, replayCount, otherVars>>

\* REPLAY_PROGRESS
OnReplayProgress ==
  /\ IsHead("REPLAY_PROGRESS")
  /\ Consume
  /\ IF HasSession
     THEN /\ replayState' = <<[Session EXCEPT !.lastCompletedIndex =
                                 Head(toBg).lastCompletedIndex]>>
          /\ lastEvt' = "progress"
     ELSE /\ UNCHANGED replayState
          /\ lastEvt' = "progress_nosession"
  /\ UNCHANGED <<pendingReplayResults, timers, capturedFieldCount, tabVars, recVars,
                 processed, stepLog, navCount, replayCount, otherVars>>

\* (mutation: the reported counts and warnings replace the accumulated ones)
MergedOverwrite(acc, results) ==
  [acc EXCEPT !.filled = results.filled, !.clicked = results.clicked,
              !.skipped = results.skipped, !.warnings = results.warnings]

\* pendingReplayResults.filled += ...; warnings = warnings.concat(...)
Merged(acc, results) ==
  [acc EXCEPT !.filled = @ + results.filled,
              !.clicked = @ + results.clicked,
              !.skipped = @ + results.skipped,
              !.warnings = @ \o results.warnings]

\* REPLAY_FINISHED
OnReplayFinished ==
  /\ IsHead("REPLAY_FINISHED")
  /\ Consume
  /\ \/ /\ HasSession /\ HasReport
        /\ pendingReplayResults' = <<Merged(Report, Head(toBg).results)>>
        /\ replayState' = <<>>
        /\ lastEvt' = "finished_merged"
     \/ /\ HasSession /\ ~HasReport
        /\ pendingReplayResults' = <<CopyOf(Head(toBg).results)>>
        /\ replayState' = <<>>
        /\ lastEvt' = "finished_first"
     \/ /\ ~HasSession
        /\ pendingReplayResults' = <<CopyOf(Head(toBg).results)>>
        /\ UNCHANGED replayState
        /\ lastEvt' = "finished_nosession"
  /\ UNCHANGED <<timers, capturedFieldCount, tabVars, recVars, processed, stepLog, navCount, replayCount, otherVars>>

\* GET_REPLAY_RESULTS then CLEAR_REPLAY_RESULTS, sent by the popup when it opens
PopupTakesResults ==
  /\ HasReport
  /\ pendingReplayResults' = <<>>
  /\ UNCHANGED <<replayState, timers, toBg, capturedFieldCount, tabVars, recVars, obsVars, otherVars>>

-----------------------------------------------------------------------------
(* Service worker: chrome.tabs.onUpdated listener (status 'complete') *)

\* the three early returns, and the steps/lastIdx guard
NavIgnored ==
  /\ \/ /\ ~HasSession
        /\ lastEvt' = "nav_nosession"
     \/ /\ HasSession /\ Head(toBg).tab /= Session.tabId
        /\ lastEvt' = "nav_othertab"
     \/ /\ HasSession /\ Head(toBg).tab = Session.tabId
        /\ Session.lastCompletedIndex < 0
        /\ lastEvt' = "nav_noprogress"
  /\ UNCHANGED <<replayState, pendingReplayResults, timers>>

NavGuardsPassed ==
  /\ HasSession
  /\ Head(toBg).tab = Session.tabId
  /\ ~(Session.lastCompletedIndex < 0)

AbortWarning(host) == <<"Cross-domain navigation", host>>

\* newHostname !== replayState.originHostname
NavAbort ==
  /\ NavGuardsPassed
  /\ Head(toBg).host /= Session.originHostname
  /\ pendingReplayResults' =
       <<[(IF HasReport THEN Report ELSE EmptyReport) EXCEPT
            !.aborted = TRUE,
            !.warnings = Append(@, AbortWarning(Head(toBg).host))]>>
  /\ replayState' = <<>>
  /\ lastEvt' = "nav_abort"
  /\ UNCHANGED timers

\* (mutation: resume at the step reported last)
ResumeIndexSame(lastIdx) == lastIdx

\* const startIndex = lastIdx + 1
ResumeIndex(lastIdx) == lastIdx + 1

\* startIndex >= steps.length
NavAlreadyComplete ==
  /\ NavGuardsPassed
  /\ Head(toBg).host = Session.originHostname
  /\ ResumeIndex(Session.lastCompletedIndex) >= Len(Session.steps)
  /\ replayState' = <<>>
  /\ lastEvt' = "nav_complete"
  /\ UNCHANGED <<pendingReplayResults, timers>>

\* same domain, steps left: setTimeout(() => {...}, 200)
NavResume ==
  /\ NavGuardsPassed
  /\ Head(toBg).host = Session.originHostname
  /\ ResumeIndex(Session.lastCompletedIndex) < Len(Session.steps)
  /\ pendingReplayResults' = IF HasReport THEN pendingReplayResults
                             ELSE <<EmptyReport>>
  /\ timers' = Append(timers,
       [tabId |-> Head(toBg).tab, steps |-> Session.steps,
        startIndex |-> ResumeIndex(Session.lastCompletedIndex),
        stage |-> "timer"])
  /\ lastEvt' = "nav_resume"
  /\ UNCHANGED replayState

OnTabUpdated ==
  /\ IsHead("TAB_UPDATED")
  /\ Consume
  /\ \/ NavIgnored
     \/ NavAbort
     \/ NavAlreadyComplete
     \/ NavResume
  /\ UNCHANGED <<capturedFieldCount, tabVars, recVars, processed, stepLog, navCount, replayCount, otherVars>>

ContinueReplay(r) ==
  /\ StartPass(r.tabId, r.steps, r.startIndex, toBg)
  /\ ctxAlive' = [ctxAlive EXCEPT ![r.tabId] = TRUE]

\* the timer fired and the PING was answered: CONTINUE_REPLAY
ResumeProbeAnswered(k) ==
  /\ timers[k].stage = "timer"
  /\ ctxAlive[timers[k].tabId]
  /\ ContinueReplay(timers[k])
  /\ timers' = RemoveAt(timers, k)
  /\ lastEvt' = "continue_sent"
  /\ UNCHANGED <<replayState, pendingReplayResults, capturedFieldCount, tabHost,
                 tabLoading, script, recVars, processed, stepLog, navCount, replayCount, otherVars>>

\* the timer fired and the PING failed: chrome.scripting.executeScript
ResumeProbeFailed(k) ==
  /\ timers[k].stage = "timer"
  /\ ~ctxAlive[timers[k].tabId]
  /\ timers' = [timers EXCEPT ![k].stage = "inject"]
  /\ UNCHANGED <<replayState, pendingReplayResults, toBg, capturedFieldCount, tabVars, recVars, obsVars, otherVars>>

\* executeScript resolved: CONTINUE_REPLAY
ReinjectDone(k) ==
  /\ timers[k].stage = "inject"
  /\ ContinueReplay(timers[k])
  /\ timers' = RemoveAt(timers, k)
  /\ lastEvt' = "continue_sent_reinjected"
  /\ UNCHANGED <<replayState, pendingReplayResults, capturedFieldCount, tabHost,
                 tabLoading, script, recVars, processed, stepLog, navCount, replayCount, otherVars>>

\* (mutation: a failed reinjection leaves the session in place)
ReinjectFailedKeeps(k) ==
  /\ timers[k].stage = "inject"
  /\ ~ctxAlive[timers[k].tabId]
  /\ timers' = RemoveAt(timers, k)
  /\ lastEvt' = "reinject_failed"
  /\ UNCHANGED <<replayState, pendingReplayResults, toBg, capturedFieldCount,
                 tabVars, recVars, processed, stepLog, navCount, replayCount, otherVars>>

\* executeScript rejected: replayState = null
ReinjectFailed(k) ==
  /\ timers[k].stage = "inject"
  /\ ~ctxAlive[timers[k].tabId]
  /\ replayState' = <<>>
  /\ timers' = RemoveAt(timers, k)
  /\ lastEvt' = "reinject_failed"
  /\ UNCHANGED <<pendingReplayResults, toBg, capturedFieldCount, tabVars, recVars,
                 processed, stepLog, navCount, replayCount, otherVars>>

-----------------------------------------------------------------------------
(* The recorded page *)

\* the elements of the recorded page: two text fields, two buttons; the page
\* gives the id "q" to a field and to a button (ids are not checked for
\* uniqueness by browsers)
Elements ==
  { [id |-> "name", tag |-> "input",  type |-> "text", label |-> "Name"],
    [id |-> "q",    tag |-> "input",  type |-> "text", label |-> "Query"],
    [id |-> "q",    tag |-> "button", type |-> "",     label |-> "Search"],
    [id |-> "go",   tag |-> "button", type |-> "",     label |-> "Go"] }

Values == {"x", "y"}

Selectors == { <<"#", el.id>> : el \in Elements }

NoLog == [count |-> 0, firstOrder |-> 0, lastValue |-> ""]

-----------------------------------------------------------------------------
(* The browser and the user *)

\* the popup's Replay button: ensureContentScript, then REPLAY_SCRIPT, whose
\* handler sends REPLAY_STARTED and calls replayScript(msg.fields)
StartReplay(t, fields) ==
  /\ replayCount' = replayCount + 1
  /\ processed' = 0
  /\ stepLog' = <<>>
  /\ ctxAlive' = [ctxAlive EXCEPT ![t] = TRUE]
  /\ StartPass(t, fields, 0,
               Append(toBg, [type |-> "REPLAY_STARTED", tab |-> t,
                             fields |-> fields, host |-> tabHost[t]]))
  /\ UNCHANGED <<replayState, pendingReplayResults, timers, capturedFieldCount,
                 tabHost, tabLoading,
                 script, recVars, lastEvt, navCount, otherVars>>

\* the tab leaves its page: the page's content script and its passes are gone
Navigate(t, host) ==
  /\ navCount' = navCount + 1
  /\ tabHost' = [tabHost EXCEPT ![t] = host]
  /\ tabLoading' = [tabLoading EXCEPT ![t] = TRUE]
  /\ ctxAlive' = [ctxAlive EXCEPT ![t] = FALSE]
  /\ passes' = [passes EXCEPT ![t] = <<>>]
  /\ recording' = [recording EXCEPT ![t] = FALSE]
  /\ fieldOrder' = [fieldOrder EXCEPT ![t] = 0]
  /\ capturedFields' = [capturedFields EXCEPT ![t] = <<>>]
  /\ inputLog' = [inputLog EXCEPT ![t] = [sel \in Selectors |-> NoLog]]
  /\ appended' = [appended EXCEPT ![t] = <<>>]
  /\ clicks' = [clicks EXCEPT ![t] = 0]
  /\ sent' = [sent EXCEPT ![t] = 0]
  /\ checked' = [checked EXCEPT ![t] = [box \in Checkboxes |-> FALSE]]
  /\ dispatched' = [dispatched EXCEPT ![t] = <<>>]
  /\ UNCHANGED <<coordVars, script, returned, eventCount, processed, stepLog, lastEvt,
                 replayCount, uiVars, domVars, svcVars>>

\* the manifest's content script is injected into the new page
ContentScriptLoaded(t) ==
  /\ ~ctxAlive[t]
  /\ ctxAlive' = [ctxAlive EXCEPT ![t] = TRUE]
  /\ UNCHANGED <<coordVars, tabHost, tabLoading, passes, script, recVars, obsVars, otherVars>>

\* the page finished loading: tabs.onUpdated with status 'complete'
LoadComplete(t) ==
  /\ tabLoading[t]
  /\ tabLoading' = [tabLoading EXCEPT ![t] = FALSE]
  /\ toBg' = Append(toBg, [type |-> "TAB_UPDATED", tab |-> t, host |-> tabHost[t]])
  /\ UNCHANGED <<replayState, pendingReplayResults, timers, capturedFieldCount,
                 tabHost, ctxAlive, passes, script, recVars, obsVars, otherVars>>

-----------------------------------------------------------------------------
(* Content script: the step recorder *)

\* Recorder.getSelector: the element has an id
GetSelector(el) == [selector |-> <<"#", el.id>>, fragile |-> FALSE]

\* Recorder.getFieldType
GetFieldType(el) ==
  IF el.tag = "select" THEN "select"
  ELSE IF el.tag = "textarea" THEN "textarea"
  ELSE IF el.tag = "input" /\ el.type \in {"checkbox", "radio", "date", "time",
            "datetime-local", "color", "range", "file"} THEN el.type
  ELSE "text"

IsFormElement(el) == el.tag \in {"input", "select", "textarea"}

\* e.target.closest(CLICK_TARGETS), then the input-type filter
IsClickTarget(el) ==
  \/ el.tag \in {"button", "a"}
  \/ el.tag = "input" /\ el.type \in {"submit", "button"}

\* (mutation: a new recording goes on with the old buffer)
KeptBuffer(fields) == fields

\* capturedFields = []
FreshBuffer(fields) == <<>>

\* startRecording(): what it does to the recorder
Started(t) ==
  /\ recording' = [recording EXCEPT ![t] = TRUE]
  /\ fieldOrder' = [fieldOrder EXCEPT ![t] = 0]
  /\ capturedFields' = [capturedFields EXCEPT ![t] = FreshBuffer(@)]
  /\ appended' = [appended EXCEPT ![t] = <<>>]
  /\ clicks' = [clicks EXCEPT ![t] = 0]
  /\ sent' = [sent EXCEPT ![t] = 0]
  /\ inputLog' = [inputLog EXCEPT ![t] = [sel \in Selectors |-> NoLog]]
  /\ UNCHANGED returned

\* stopRecording() and the STOP_RECORDING response {ok: true, fields}
Stopped(t) ==
  /\ recording' = [recording EXCEPT ![t] = FALSE]
  /\ returned' = [returned EXCEPT ![t] = capturedFields[t]]
  /\ UNCHANGED <<fieldOrder, capturedFields, appended, clicks, sent, inputLog>>

\* START_RECORDING handled by the content script of tab t
StartRecording(t) ==
  /\ Started(t)
  /\ UNCHANGED <<coordVars, tabVars, eventCount, obsVars, otherVars>>

\* STOP_RECORDING handled by the content script of tab t
StopRecording(t) ==
  /\ Stopped(t)
  /\ UNCHANGED <<coordVars, tabVars, eventCount, obsVars, otherVars>>

\* capturedFields.find((f) => f.selector === selector): index of the first
\* step with that selector, 0 when there is none
FindStep(fields, selector) ==
  IF \E k \in 1..Len(fields) : fields[k].selector = selector
  THEN CHOOSE k \in 1..Len(fields) :
         /\ fields[k].selector = selector
         /\ \A j \in 1..(k - 1) : fields[j].selector /= selector
  ELSE 0

Logged(log, order, v) ==
  [count |-> log.count + 1,
   firstOrder |-> IF log.count = 0 THEN order ELSE log.firstOrder,
   lastValue |-> v]

\* (mutation: the order is taken before the counter is advanced)
NextOrderStale(counter) == counter

\* fieldOrder++
NextOrder(counter) == counter + 1

CaptureMsg(type, t, step) == [type |-> type, tab |-> t, field |-> step]

\* (mutation: an update of an existing step is announced like a new step)
AfterUpdateAnnounced(queue, t, step) ==
  Append(queue, CaptureMsg("FIELD_CAPTURED", t, step))

\* the branch that updates an existing step sends nothing
AfterUpdate(queue, t, step) == queue

\* existing.value = value
WithValue(step, v) ==
  [f \in (DOMAIN step) \cup {"value"} |-> IF f = "value" THEN v ELSE step[f]]

\* onInput(e): an input or change event on el, whose value is now v
OnInput(t, el, v) ==
  LET selector == GetSelector(el).selector
      existing == FindStep(capturedFields[t], selector)
      field    == [order |-> NextOrder(fieldOrder[t]), action |-> "fill",
                   selector |-> selector, value |-> v,
                   type |-> GetFieldType(el), label |-> el.label,
                   fragile |-> GetSelector(el).fragile]
  IN
  /\ eventCount' = eventCount + 1
  /\ IF ~recording[t] \/ ~IsFormElement(el)
     THEN UNCHANGED <<fieldOrder, capturedFields, appended, inputLog, toBg>>
     ELSE /\ inputLog' = [inputLog EXCEPT ![t][selector] =
                             Logged(@, fieldOrder[t] + 1, v)]
          /\ IF existing /= 0
             THEN /\ capturedFields' = [capturedFields EXCEPT ![t][existing] =
                                          WithValue(@, v)]
                  /\ toBg' = AfterUpdate(toBg, t, capturedFields'[t][existing])
                  /\ UNCHANGED <<fieldOrder, appended>>
             ELSE /\ fieldOrder' = [fieldOrder EXCEPT ![t] = NextOrder(@)]
                  /\ capturedFields' = [capturedFields EXCEPT ![t] = Append(@, field)]
                  /\ appended' = [appended EXCEPT ![t] = Append(@, field)]
                  /\ toBg' = Append(toBg, CaptureMsg("FIELD_CAPTURED", t, field))
  /\ sent' = [sent EXCEPT ![t] = @ + Len(toBg') - Len(toBg)]
  /\ UNCHANGED <<replayState, pendingReplayResults, timers, capturedFieldCount,
                 tabVars, recording, returned, clicks, obsVars, otherVars>>

\* (mutation: a click on a selector that has a click step adds nothing)
ClickBufferDeduped(fields, step) ==
  IF \E k \in 1..Len(fields) :
       fields[k].selector = step.selector /\ fields[k].action = "click"
  THEN fields
  ELSE Append(fields, step)

\* capturedFields.push(step)
ClickBuffer(fields, step) == Append(fields, step)

\* onClickCapture(e): a click whose closest click target is el (for an element
\* that is no click target, closest() finds none)
OnClickCapture(t, el) ==
  LET step == [order |-> NextOrder(fieldOrder[t]), action |-> "click",
               selector |-> GetSelector(el).selector, label |-> el.label,
               fragile |-> GetSelector(el).fragile]
  IN
  /\ eventCount' = eventCount + 1
  /\ IF ~recording[t] \/ ~IsClickTarget(el)
     THEN UNCHANGED <<fieldOrder, capturedFields, appended, clicks, toBg>>
     ELSE /\ clicks' = [clicks EXCEPT ![t] = @ + 1]
          /\ fieldOrder' = [fieldOrder EXCEPT ![t] = NextOrder(@)]
          /\ capturedFields' = [capturedFields EXCEPT ![t] = ClickBuffer(@, step)]
          /\ appended' = [appended EXCEPT ![t] = Append(@, step)]
          /\ toBg' = Append(toBg, CaptureMsg("STEP_CAPTURED", t, step))
  /\ sent' = [sent EXCEPT ![t] = @ + Len(toBg') - Len(toBg)]
  /\ UNCHANGED <<replayState, pendingReplayResults, timers, capturedFieldCount,
                 tabVars, recording, returned, inputLog, obsVars, otherVars>>

\* service worker: FIELD_CAPTURED / STEP_CAPTURED
OnStepCaptured ==
  /\ toBg /= <<>>
  /\ Head(toBg).type \in {"FIELD_CAPTURED", "STEP_CAPTURED"}
  /\ Consume
  /\ capturedFieldCount' = capturedFieldCount + 1
  /\ UNCHANGED <<replayState, pendingReplayResults, timers, tabVars, recVars,
                 obsVars, otherVars>>

-----------------------------------------------------------------------------
(* Documents and selectors (recorder.js) *)

MaxNodes == 6       \* elements under body
MaxDepth == 3       \* nesting of the elements under body

Tags == {"div", "form", "input"}

\* An element is [depth, tag, id, name, qa], "" for an attribute it does not
\* have; a document lists its elements in document order, the children of
\* body at depth 1.
Element(depth, tag, id, name, qa) ==
  [depth |-> depth, tag |-> tag, id |-> id, name |-> name, qa |-> qa]

\* an element without id and data-qa; an input has the name "x"
Node(depth, tag) ==
  Element(depth, tag, "", IF tag = "input" THEN "x" ELSE "", "")

MaxAttrNodes == 3   \* elements under body of a document with attributes

Ids   == {"", "a"}
Names == {"", "x"}
Qas   == {"", "q"}

NoResult == [selector |-> [kind |-> "none"], fragile |-> FALSE]

Max(S) == CHOOSE x \in S : \A y \in S : y <= x

Min(S) == CHOOSE x \in S : \A y \in S : x <= y

\* el.parentElement; 0 is body
Parent(d, i) ==
  IF d[i].depth = 1 THEN 0
  ELSE Max({ j \in 1..(i - 1) : d[j].depth = d[i].depth - 1 })

Ancestors(d, i) ==
  { j \in 1..(i - 1) :
      /\ d[j].depth < d[i].depth
      /\ \A k \in (j + 1)..i : d[k].depth > d[j].depth }

\* parent.children filtered by tagName
SameTagSiblings(d, i) ==
  { j \in 1..Len(d) : Parent(d, j) = Parent(d, i) /\ d[j].tag = d[i].tag }

\* what :nth-of-type counts, and siblings.indexOf(current) + 1
NthOfType(d, i) == Cardinality({ j \in SameTagSiblings(d, i) : j <= i })

\* el.closest('form') of an element that is no form; 0 when there is none
ClosestForm(d, i) ==
  LET forms == { j \in Ancestors(d, i) : d[j].tag = "form" }
  IN IF forms = {} THEN 0 ELSE Max(forms)

\* Array.from(document.querySelectorAll('form')).indexOf(form)
FormIndex(d, form) == Cardinality({ j \in 1..(form - 1) : d[j].tag = "form" })

\* (mutation: every compound carries :nth-of-type)
PartAlwaysNth(d, i) == [tag |-> d[i].tag, nth |-> NthOfType(d, i)]

\* one compound of a positional selector: tag or tag:nth-of-type(nth)
Part(d, i) ==
  [tag |-> d[i].tag,
   nth |-> IF Cardinality(SameTagSiblings(d, i)) > 1 THEN NthOfType(d, i) ELSE 0]

\* buildPositionalSelector(el): the compounds from the child of body down to
\* el, joined by ' > '
RECURSIVE BuildPositionalSelector(_, _)
BuildPositionalSelector(d, i) ==
  IF i = 0 THEN <<>>
  ELSE Append(BuildPositionalSelector(d, Parent(d, i)), Part(d, i))

MatchesPart(d, i, part) ==
  /\ d[i].tag = part.tag
  /\ part.nth /= 0 => NthOfType(d, i) = part.nth

\* element i matches the compounds joined by child combinators; body matches
\* none of them
RECURSIVE MatchesPath(_, _, _)
MatchesPath(d, i, parts) ==
  IF parts = <<>> THEN TRUE
  ELSE /\ i /= 0
       /\ MatchesPart(d, i, parts[Len(parts)])
       /\ MatchesPath(d, Parent(d, i), SubSeq(parts, 1, Len(parts) - 1))

\* the selectors getSelector builds: #id, tag[name="..."],
\*   form:nth-of-type(n) tag[name="..."], [data-qa="..."], a positional path
Matches(d, i, sel) ==
  IF sel.kind = "id"
  THEN d[i].id = sel.id
  ELSE IF sel.kind = "qa"
  THEN d[i].qa = sel.qa
  ELSE IF sel.kind = "name"
  THEN d[i].tag = sel.tag /\ d[i].name = sel.name
  ELSE IF sel.kind = "scoped"
  THEN /\ d[i].tag = sel.tag /\ d[i].name = sel.name
       /\ \E f \in Ancestors(d, i) : d[f].tag = "form" /\ NthOfType(d, f) = sel.n
  ELSE /\ sel.kind = "path"
       /\ MatchesPath(d, i, sel.parts)

\* document.querySelectorAll(selector)
QuerySelectorAll(d, sel) == { i \in 1..Len(d) : Matches(d, i, sel) }

\* document.querySelector(selector): the first match in document order, 0 for
\* null
QuerySelector(d, sel) ==
  IF QuerySelectorAll(d, sel) = {} THEN 0 ELSE Min(QuerySelectorAll(d, sel))

\* (mutation: data-qa is tried before name)
QaBeforeName(d, i, byName, byQa, positional) ==
  IF byQa /= <<>> THEN byQa[1]
  ELSE IF byName /= <<>> THEN byName[1]
  ELSE positional

\* steps 2 to 4 of getSelector: byName and byQa are <<>> or <<selector>>,
\* what the step returns when it returns
NameBeforeQa(d, i, byName, byQa, positional) ==
  IF byName /= <<>> THEN byName[1]
  ELSE IF byQa /= <<>> THEN byQa[1]
  ELSE positional

\* Recorder.getSelector(el) for element i of document d
GetSelectorIn(d, i) ==
  LET plain  == [kind |-> "name", tag |-> d[i].tag, name |-> d[i].name]
      form   == ClosestForm(d, i)
      scoped == [kind |-> "scoped", n |-> FormIndex(d, form) + 1,
                 tag |-> d[i].tag, name |-> d[i].name]
      qa     == [kind |-> "qa", qa |-> d[i].qa]
      byName ==
        IF d[i].name /= "" /\ Cardinality(QuerySelectorAll(d, plain)) = 1
        THEN <<[selector |-> plain, fragile |-> FALSE]>>
        ELSE IF /\ d[i].name /= ""
                /\ form /= 0
                /\ Cardinality(QuerySelectorAll(d, scoped)) = 1
        THEN <<[selector |-> scoped, fragile |-> FALSE]>>
        ELSE <<>>
      byQa ==
        IF d[i].qa /= "" /\ Cardinality(QuerySelectorAll(d, qa)) = 1
        THEN <<[selector |-> qa, fragile |-> FALSE]>>
        ELSE <<>>
  IN
  IF d[i].id /= ""
  THEN [selector |-> [kind |-> "id", id |-> d[i].id], fragile |-> FALSE]
  ELSE NameBeforeQa(d, i, byName, byQa,
         [selector |-> [kind |-> "path", parts |-> BuildPositionalSelector(d, i)],
          fragile |-> TRUE])

\* the page gets one more element, after the elements it has: an input has no
\* children, and a form is not nested in a form
Added(el, max) ==
  LET d == Append(doc, el)
      i == Len(d)
  IN
  /\ target = 0
  /\ Len(doc) < max
  /\ el.depth <= (IF doc = <<>> THEN 1 ELSE doc[Len(doc)].depth + 1)
  /\ Parent(d, i) /= 0 => d[Parent(d, i)].tag /= "input"
  /\ el.tag = "form" => ClosestForm(d, i) = 0
  /\ doc' = d
  /\ UNCHANGED <<coordVars, tabVars, recVars, obsVars, uiVars, pageVars, svcVars,
                 target, result, fillEl, fillCall>>

AddElement(depth, tag) == Added(Node(depth, tag), MaxNodes)

\* the same for a document whose inputs have attributes
AddContainer(depth, tag) == Added(Node(depth, tag), MaxAttrNodes)

AddInput(depth, id, name, qa) ==
  Added(Element(depth, "input", id, name, qa), MaxAttrNodes)

\* the recorder resolves the selector of a form element of the page
ResolveElement(i) ==
  /\ target = 0
  /\ doc[i].tag = "input"
  /\ target' = i
  /\ result' = GetSelectorIn(doc, i)
  /\ UNCHANGED <<coordVars, tabVars, recVars, obsVars, uiVars, pageVars, svcVars, doc,
                 fillEl, fillCall>>

-----------------------------------------------------------------------------
(* Content script: setValue on the element a fill step found *)

MaxFills == 3       \* setValue calls on one element in one behaviour

NoElement == [tag |-> "none", type |-> "", checked |-> FALSE, value |-> ""]

NoFill ==
  [n |-> 0, type |-> "", value |-> "", before |-> NoElement, events |-> <<>>,
   threw |-> FALSE]

FillValues == {"a", "b"}

\* the form elements a step's selector finds
FillElements ==
  { [tag |-> "input", type |-> ty, checked |-> FALSE, value |-> v] :
      ty \in {"text", "date"}, v \in {""} \cup FillValues }
  \cup { [tag |-> "input", type |-> ty, checked |-> c, value |-> "on"] :
      ty \in {"checkbox", "radio"}, c \in BOOLEAN }
  \cup { [tag |-> tg, type |-> "", checked |-> FALSE, value |-> v] :
      tg \in {"textarea", "select"}, v \in {""} \cup FillValues }

\* the type of the step: what the recorder stored for the element, or, for an
\* input, a type that setValue has no branch for
StepTypes(e) ==
  {GetFieldType(e)} \cup (IF e.tag = "input" /\ e.type = "text"
                          THEN {"unknown"} ELSE {})

\* the value of the step: el.checked for a checkbox, el.value otherwise
StepValues(type) == IF type = "checkbox" THEN BOOLEAN ELSE FillValues

\* Object.getOwnPropertyDescriptor(HTMLInputElement.prototype, 'value') is
\* always defined, so the || never takes the textarea's descriptor, and the
\* setter of HTMLInputElement throws a TypeError when it is called on an
\* element that is no HTMLInputElement
NativeSetterAccepts(e) == e.tag = "input"

\* setValue(el, value, type): the element afterwards, the events dispatched in
\* order, and whether the call threw
SetValueOn(e, value, type) ==
  IF type = "checkbox"
  THEN IF CheckboxChanges(e.checked, value)
       THEN [el |-> [e EXCEPT !.checked = value],
             events |-> <<"change", "input">>, threw |-> FALSE]
       ELSE [el |-> e, events |-> <<>>, threw |-> FALSE]
  ELSE IF type = "radio"
  THEN [el |-> [e EXCEPT !.checked = TRUE],
        events |-> <<"change", "input">>, threw |-> FALSE]
  ELSE IF type = "select"
  THEN [el |-> [e EXCEPT !.value = value],
        events |-> <<"change", "input">>, threw |-> FALSE]
  ELSE IF NativeSetterAccepts(e)
  THEN [el |-> [e EXCEPT !.value = value],
        events |-> <<"input", "change">>, threw |-> FALSE]
  ELSE [el |-> e, events |-> <<>>, threw |-> TRUE]

\* const el = await waitForElement(step.selector, 3000) found the element
ElementResolved(e) ==
  /\ fillEl = NoElement
  /\ fillEl' = e
  /\ UNCHANGED <<coordVars, tabVars, recVars, obsVars, uiVars, pageVars, svcVars,
                 doc, target, result, fillCall>>

\* setValue(el, step.value, step.type) of a fill step of the element
SetValueCalled(value, type) ==
  LET r == SetValueOn(fillEl, value, type) IN
  /\ fillEl /= NoElement
  /\ fillCall.n < MaxFills
  /\ type \in StepTypes(fillEl)
  /\ value \in StepValues(type)
  /\ fillEl' = r.el
  /\ fillCall' = [n |-> fillCall.n + 1, type |-> type, value |-> value,
                  before |-> fillEl, events |-> r.events, threw |-> r.threw]
  /\ UNCHANGED <<coordVars, tabVars, recVars, obsVars, uiVars, pageVars, svcVars,
                 doc, target, result>>

-----------------------------------------------------------------------------
(* Recording sessions: the popup, the HUD of the page and the service worker *)

MaxUiEvents == 2    \* DOM events delivered to the recorders in one behaviour

\* service worker: SET_RECORDING_TAB
SetRecordingTab(tabId) ==
  /\ recordingTabId' = tabId
  /\ capturedFieldCount' = 0

\* service worker: CLEAR_RECORDING_TAB
ClearRecordingTab ==
  /\ recordingTabId' = 0
  /\ capturedFieldCount' = 0
  /\ pendingFields' = <<>>

\* getActiveTab(): the active tab of the current window
GetActiveTab == activeTab

\* popup init: GET_STATE, then the view that the answer calls for
PopupInit ==
  /\ popupView = "closed"
  /\ IF pendingFields /= <<>>
     THEN /\ popupFields' = pendingFields[1]
          /\ pendingFields' = <<>>
          /\ popupView' = "save"
          /\ UNCHANGED pendingReplayResults
     ELSE IF recordingTabId /= 0
     THEN /\ popupView' = "recording"
          /\ UNCHANGED <<popupFields, pendingFields, pendingReplayResults>>
     ELSE /\ popupView' = IF HasReport THEN "results" ELSE "idle"
          /\ pendingReplayResults' = <<>>
          /\ UNCHANGED <<popupFields, pendingFields>>
  /\ UNCHANGED <<replayState, timers, toBg, capturedFieldCount, tabVars, recVars,
                 obsVars, pageVars, domVars, svcVars, recordingTabId, activeTab>>

\* btnRecord: SET_RECORDING_TAB, then START_RECORDING to the active tab (the
\* tabs of the model take the content script, so sendToTab does not throw)
PopupRecord ==
  /\ popupView = "idle"
  /\ SetRecordingTab(GetActiveTab)
  /\ Started(GetActiveTab)
  /\ popupView' = "recording"
  /\ UNCHANGED <<replayState, pendingReplayResults, timers, toBg, tabVars,
                 eventCount, obsVars, pageVars, domVars, svcVars, pendingFields, activeTab, popupFields>>

\* btnStop: STOP_RECORDING to the active tab, then CLEAR_RECORDING_TAB
PopupStop ==
  /\ popupView = "recording"
  /\ Stopped(GetActiveTab)
  /\ popupFields' = capturedFields[GetActiveTab]
  /\ ClearRecordingTab
  /\ popupView' = "save"
  /\ UNCHANGED <<replayState, pendingReplayResults, timers, toBg, tabVars,
                 eventCount, obsVars, pageVars, domVars, svcVars, activeTab>>

\* btnDiscard: STOP_RECORDING to the active tab, then CLEAR_RECORDING_TAB
PopupDiscard ==
  /\ popupView = "recording"
  /\ Stopped(GetActiveTab)
  /\ popupFields' = <<>>
  /\ ClearRecordingTab
  /\ popupView' = "idle"
  /\ UNCHANGED <<replayState, pendingReplayResults, timers, toBg, tabVars,
                 eventCount, obsVars, pageVars, domVars, svcVars, activeTab>>

\* btnSaveDiscard, and finishSave after btnSave: back to the idle view
PopupLeavesSave ==
  /\ popupView = "save"
  /\ popupFields' = <<>>
  /\ popupView' = "idle"
  /\ UNCHANGED <<coordVars, tabVars, recVars, obsVars, pageVars, domVars, svcVars, recordingTabId,
                 pendingFields, activeTab>>

\* the popup is closed: its script and its variables are gone
PopupCloses ==
  /\ popupView /= "closed"
  /\ popupView' = "closed"
  /\ popupFields' = <<>>
  /\ UNCHANGED <<coordVars, tabVars, recVars, obsVars, pageVars, domVars, svcVars, recordingTabId,
                 pendingFields, activeTab>>

\* the user activates another tab, which closes the popup
SwitchTab(t) ==
  /\ t /= activeTab
  /\ activeTab' = t
  /\ popupView' = "closed"
  /\ popupFields' = <<>>
  /\ UNCHANGED <<coordVars, tabVars, recVars, obsVars, pageVars, domVars, svcVars, recordingTabId,
                 pendingFields>>

\* the HUD's stop button of tab t (the HUD is there while the page records)
\* sends OVERLAY_STOP_CLICKED, and the service worker handles it
OverlayStop(t) ==
  /\ recording[t]
  /\ popupView = "closed"
  /\ IF recordingTabId /= 0
     THEN /\ Stopped(recordingTabId)
          /\ pendingFields' = <<capturedFields[recordingTabId]>>
          /\ recordingTabId' = 0
          /\ capturedFieldCount' = 0
     ELSE UNCHANGED <<recording, returned, fieldOrder, capturedFields, appended,
                      clicks, sent, inputLog, pendingFields, recordingTabId,
                      capturedFieldCount>>
  /\ UNCHANGED <<replayState, pendingReplayResults, timers, toBg, tabVars,
                 eventCount, obsVars, pageVars, domVars, svcVars, activeTab, popupView, popupFields>>

-----------------------------------------------------------------------------
(* StorageService (services/storage.js) over chrome.storage.local *)

MaxStoreOps == 5         \* StorageService calls in one behaviour
CHUNK_SIZE == 4          \* characters of one chunk, scaled down from the 7000 of the source
FREE_MAX_SCRIPTS == 2
ScriptIds == {1, 2, 3}
SiteIds == {1, 2}
PersonaIds == {1, 2}

\* ids are positive numbers and 0 stands for null; a timestamp is the reading of
\* the clock, and 0 stands for a property that is absent
Entry(id, site_id, persona_id, created_at) ==
  [id |-> id, site_id |-> site_id, persona_id |-> persona_id, created_at |-> created_at,
   updated_at |-> created_at, deleted_at |-> 0]

\* a JSON text is a sequence of characters; a number is one character
Char(k, v) == [k |-> k, v |-> v]

StringifyScript(s) ==
  << Char("{", 0), Char("n", s.id), Char("n", s.site_id), Char("n", s.persona_id),
     Char("n", s.created_at), Char("n", s.updated_at), Char("n", s.deleted_at), Char("}", 0) >>

RECURSIVE StringifyItems(_)
StringifyItems(scripts) ==
  IF scripts = <<>> THEN <<>>
  ELSE IF Len(scripts) = 1 THEN StringifyScript(scripts[1])
  ELSE StringifyScript(scripts[1]) \o <<Char(",", 0)>> \o StringifyItems(Tail(scripts))

\* JSON.stringify of a list of scripts
Stringify(scripts) == <<Char("[", 0)>> \o StringifyItems(scripts) \o <<Char("]", 0)>>

\* <<script>> when the text starts with an object, <<>> when it does not
ParseScript(json) ==
  IF /\ Len(json) >= 8
     /\ json[1].k = "{"
     /\ \A i \in 2..7 : json[i].k = "n"
     /\ json[8].k = "}"
  THEN << [id |-> json[2].v, site_id |-> json[3].v, persona_id |-> json[4].v,
           created_at |-> json[5].v, updated_at |-> json[6].v, deleted_at |-> json[7].v] >>
  ELSE <<>>

RECURSIVE ParseItems(_)
ParseItems(json) ==
  LET first == ParseScript(json)
      rest  == SubSeq(json, 9, Len(json))
  IN IF first = <<>> THEN <<>>
     ELSE IF rest = <<>> THEN <<first>>
     ELSE IF rest[1].k = "," /\ ParseItems(Tail(rest)) # <<>>
          THEN <<first \o ParseItems(Tail(rest))[1]>>
          ELSE <<>>

\* JSON.parse: <<list>>, or <<>> when it throws a SyntaxError
Parse(json) ==
  IF Len(json) < 2 \/ json[1].k # "[" \/ json[Len(json)].k # "]" THEN <<>>
  ELSE IF Len(json) = 2 THEN << <<>> >>
  ELSE ParseItems(SubSeq(json, 2, Len(json) - 1))

\* String.prototype.slice(i, i + CHUNK_SIZE), and a variant that loses the last character
SliceShort(json, i) == SubSeq(json, i + 1, Min({i + CHUNK_SIZE - 1, Len(json)}))

Slice(json, i) == SubSeq(json, i + 1, Min({i + CHUNK_SIZE, Len(json)}))

\* the chunks of a text, by the number of the key steno_scripts_<number>
Chunks(json) ==
  [c \in 0..(((Len(json) + CHUNK_SIZE - 1) \div CHUNK_SIZE) - 1) |-> Slice(json, c * CHUNK_SIZE)]

EmptyLocal ==
  [steno_sites |-> <<>>, steno_personas |-> <<>>, steno_scripts_count |-> 0,
   steno_scripts |-> <<>>, steno_api_token |-> "", steno_api_user |-> "",
   steno_last_synced_at |-> 0]

WriteChunked(l, scripts) ==
  LET chunks   == Chunks(Stringify(scripts))
      oldCount == l.steno_scripts_count
      kept     == DOMAIN l.steno_scripts \ (0..(oldCount - 1))
  IN [l EXCEPT !.steno_scripts_count = Cardinality(DOMAIN chunks),
               !.steno_scripts = [i \in kept \cup DOMAIN chunks |->
                                    IF i \in DOMAIN chunks THEN chunks[i]
                                    ELSE l.steno_scripts[i]]]

RECURSIVE JoinChunks(_, _)
JoinChunks(l, count) ==
  IF count = 0 THEN <<>>
  ELSE JoinChunks(l, count - 1)
       \o (IF count - 1 \in DOMAIN l.steno_scripts THEN l.steno_scripts[count - 1] ELSE <<>>)

ReadChunked(l) ==
  LET count == l.steno_scripts_count
      json  == JoinChunks(l, count)
  IN IF count = 0 THEN <<>>
     ELSE IF Parse(json) = <<>> THEN <<>>
     ELSE Parse(json)[1]

\* list.filter((s) => !s.deleted_at)
Live(list) == SelectSeq(list, LAMBDA s : s.deleted_at = 0)

\* list.findIndex((s) => s.id === id), counted from 1, 0 when there is none
FindIndex(list, id) ==
  IF \E i \in 1..Len(list) : list[i].id = id
  THEN Min({i \in 1..Len(list) : list[i].id = id})
  ELSE 0

GetScripts(l) == Live(ReadChunked(l))

\* <<script>>, or <<>> for null
GetScript(l, id) ==
  IF FindIndex(GetScripts(l), id) = 0 THEN <<>>
  ELSE <<GetScripts(l)[FindIndex(GetScripts(l), id)]>>

GetSites(l) == Live(l.steno_sites)

GetPersonas(l) == Live(l.steno_personas)

\* the ids of the FREE_MAX_SCRIPTS oldest live scripts (the sort is stable)
ActiveIds(liveScripts) ==
  { liveScripts[i].id : i \in
      { i \in 1..Len(liveScripts) :
          Cardinality({ j \in 1..Len(liveScripts) :
                          \/ liveScripts[j].created_at < liveScripts[i].created_at
                          \/ /\ liveScripts[j].created_at = liveScripts[i].created_at
                             /\ j < i }) < FREE_MAX_SCRIPTS } }

Called(op, id, limited, threw, written) ==
  [op |-> op, id |-> id, limited |-> limited, threw |-> threw, before |-> local,
   written |-> written]

SaveScript(scr, force, isPaid) ==
  /\ now < MaxStoreOps
  /\ now' = now + 1
  /\ LET allScripts  == ReadChunked(local)
         liveScripts == Live(allScripts)
         fullIndex   == FindIndex(allScripts, scr.id)
         liveIndex   == FindIndex(liveScripts, scr.id)
         limited     == ~force /\ ~isPaid
         throws      == IF liveIndex > 0
                        THEN limited /\ scr.id \notin ActiveIds(liveScripts)
                        ELSE limited /\ Len(liveScripts) >= FREE_MAX_SCRIPTS
         created     == IF scr.created_at # 0 THEN scr.created_at ELSE now'
         saved       == IF liveIndex > 0
                        THEN [scr EXCEPT !.updated_at = now']
                        ELSE [scr EXCEPT !.created_at = created, !.updated_at = created]
         written     == IF liveIndex > 0
                        THEN [allScripts EXCEPT ![fullIndex] = saved]
                        ELSE Append(allScripts, saved)
     IN /\ local' = IF throws THEN local ELSE WriteChunked(local, written)
        /\ lastCall' = Called("saveScript", scr.id, limited, throws,
                              IF throws THEN <<>> ELSE <<written>>)
  /\ UNCHANGED <<coordVars, tabVars, recVars, obsVars, uiVars, pageVars, domVars, apiVars, waitVars, syncVars>>

DeleteScript(id) ==
  /\ now < MaxStoreOps
  /\ now' = now + 1
  /\ LET allScripts == ReadChunked(local)
         index      == FindIndex(allScripts, id)
         written    == IF index > 0
                       THEN [allScripts EXCEPT ![index].deleted_at = now',
                                               ![index].updated_at = now']
                       ELSE allScripts
     IN /\ local' = WriteChunked(local, written)
        /\ lastCall' = Called("deleteScript", id, FALSE, FALSE, <<written>>)
  /\ UNCHANGED <<coordVars, tabVars, recVars, obsVars, uiVars, pageVars, domVars, apiVars, waitVars, syncVars>>

\* the created_at a caller can pass with an id: none for a script it builds, the
\* stored one for a script it read from storage before
CreatedAts(id) ==
  {0} \cup { ReadChunked(local)[i].created_at :
               i \in { i \in 1..Len(ReadChunked(local)) : ReadChunked(local)[i].id = id } }

-----------------------------------------------------------------------------
(* Content script: waitForElement(selector, timeout), waitForDomSettle(quietMs) *)

\* observer: "none", "connected" or "disconnected"; timer: the ticks left of the
\* pending setTimeout, -1 when there is none; resolutions: what resolve() was called
\* with.  Observation only: elapsed, the ticks since the call (not counted any more
\* once waitForDomSettle has seen a mutation); quiet, the ticks since the last
\* mutation the observer saw; mutated, whether it saw one; last, the step taken last.
NoWait ==
  [fn |-> "none", ms |-> 0, observer |-> "none", resolved |-> FALSE, timer |-> -1,
   resolutions |-> <<>>, elapsed |-> 0, quiet |-> 0, mutated |-> FALSE, last |-> "none"]

\* no call is under way: the promise of the last one is resolved, its timer is gone
Idle == wait.fn = "none" \/ (wait.resolutions # <<>> /\ wait.timer < 0)

WaitForElementCalled(timeout) ==
  /\ Idle
  /\ wait' = IF present
             THEN [NoWait EXCEPT !.fn = "waitForElement", !.ms = timeout,
                                 !.resolutions = <<"element">>, !.last = "called"]
             ELSE [NoWait EXCEPT !.fn = "waitForElement", !.ms = timeout,
                                 !.observer = "connected", !.timer = Ticks(timeout),
                                 !.last = "called"]
  /\ UNCHANGED <<coordVars, tabVars, recVars, obsVars, uiVars, pageVars, domVars,
                 storeVars, apiVars, present, syncVars>>

WaitForDomSettleCalled(quietMs) ==
  /\ Idle
  /\ wait' = [NoWait EXCEPT !.fn = "waitForDomSettle", !.ms = quietMs,
                            !.observer = "connected", !.timer = Ticks(quietMs),
                            !.last = "called"]
  /\ UNCHANGED <<coordVars, tabVars, recVars, obsVars, uiVars, pageVars, domVars,
                 storeVars, apiVars, present, syncVars>>

\* observe(document.body, {childList, subtree}) and, for waitForDomSettle, attributes
Observes(kind) ==
  /\ wait.observer = "connected"
  /\ kind = "childList" \/ wait.fn = "waitForDomSettle"

\* the callback of waitForElement's observer, with and without the test of found
FoundAlways(w, found) ==
  [w EXCEPT !.resolved = TRUE, !.observer = "disconnected",
            !.resolutions = Append(@, IF found THEN "element" ELSE "null")]

Found(w, found) ==
  IF found
  THEN [w EXCEPT !.resolved = TRUE, !.observer = "disconnected",
                 !.resolutions = Append(@, "element")]
  ELSE w

\* the page changes; after: whether the selector matches an element afterwards
Mutates(kind, after) ==
  /\ present' = after
  /\ wait' = IF ~Observes(kind) THEN [wait EXCEPT !.last = "unobserved"]
             ELSE IF wait.fn = "waitForElement"
             THEN [Found(wait, after) EXCEPT !.quiet = 0, !.mutated = TRUE,
                                             !.last = "observed"]
             ELSE [wait EXCEPT !.timer = RestartTimer(@, wait.ms), !.quiet = 0,
                               !.elapsed = 0, !.mutated = TRUE, !.last = "observed"]
  /\ UNCHANGED <<coordVars, tabVars, recVars, obsVars, uiVars, pageVars, domVars,
                 storeVars, apiVars, syncVars>>

\* a tick of the clock goes by while a timer is pending
ClockTicks ==
  /\ wait.timer > 0
  /\ wait' = [wait EXCEPT !.timer = @ - 1,
                          !.last = "tick",
                          !.quiet = @ + 1,
                          !.elapsed = IF wait.fn = "waitForDomSettle" /\ wait.mutated
                                      THEN 0 ELSE @ + 1]
  /\ UNCHANGED <<coordVars, tabVars, recVars, obsVars, uiVars, pageVars, domVars,
                 storeVars, apiVars, present, syncVars>>

\* the setTimeout callback of waitForElement, without and with the test of resolved
TimedOutAlways(w) ==
  [w EXCEPT !.observer = "disconnected", !.resolutions = Append(@, "null")]

TimedOut(w) ==
  IF ~w.resolved
  THEN [w EXCEPT !.observer = "disconnected", !.resolutions = Append(@, "null")]
  ELSE w

\* the setTimeout callback of waitForDomSettle
Settled(w) == [w EXCEPT !.observer = "disconnected", !.resolutions = Append(@, "settled")]

\* the pending timer of the call is due and its callback runs
WaitTimerFires ==
  /\ wait.timer = 0
  /\ wait' = [(IF wait.fn = "waitForElement" THEN TimedOut(wait) ELSE Settled(wait))
                EXCEPT !.timer = -1, !.last = "fired"]
  /\ UNCHANGED <<coordVars, tabVars, recVars, obsVars, uiVars, pageVars, domVars,
                 storeVars, apiVars, present, syncVars>>

-----------------------------------------------------------------------------
(* Specifications *)

\* the state after the extension is loaded, with the entries of storage and the
\* clock reading given
InitLocal(scripts, locals, clock) ==
  /\ replayState = <<>>
  /\ pendingReplayResults = <<>>
  /\ timers = <<>>
  /\ toBg = <<>>
  /\ capturedFieldCount = 0
  /\ tabHost = [t \in AllTabs |-> OriginHost]
  /\ tabLoading = [t \in AllTabs |-> FALSE]
  /\ ctxAlive = [t \in AllTabs |-> TRUE]
  /\ passes = [t \in AllTabs |-> <<>>]
  /\ script \in scripts
  /\ recording = [t \in AllTabs |-> FALSE]
  /\ fieldOrder = [t \in AllTabs |-> 0]
  /\ capturedFields = [t \in AllTabs |-> <<>>]
  /\ returned = [t \in AllTabs |-> <<>>]
  /\ appended = [t \in AllTabs |-> <<>>]
  /\ clicks = [t \in AllTabs |-> 0]
  /\ sent = [t \in AllTabs |-> 0]
  /\ recordingTabId = 0
  /\ pendingFields = <<>>
  /\ activeTab = 1
  /\ popupView = "closed"
  /\ popupFields = <<>>
  /\ checked = [t \in AllTabs |-> [box \in Checkboxes |-> FALSE]]
  /\ dispatched = [t \in AllTabs |-> <<>>]
  /\ doc = <<>>
  /\ target = 0
  /\ result = NoResult
  /\ fillEl = NoElement
  /\ fillCall = NoFill
  /\ local \in locals
  /\ now = clock
  /\ lastCall = Called("none", 0, FALSE, FALSE, <<>>)
  /\ token = ""
  /\ user = ""
  /\ inflight = <<>>
  /\ wait = NoWait
  /\ present = FALSE
  /\ calls = <<>>
  /\ stopSent = <<>>
  /\ lastApi = [op |-> "none", outcome |-> "ok", expired |-> FALSE, before |-> local]
  /\ inputLog = [t \in AllTabs |-> [sel \in Selectors |-> NoLog]]
  /\ processed = 0
  /\ stepLog = <<>>
  /\ lastEvt = "none"
  /\ navCount = 0
  /\ replayCount = 0
  /\ eventCount = 0

\* the state after the extension is installed
InitWith(scripts) == InitLocal(scripts, {EmptyLocal}, 0)

\* no event waits for the service worker
Quiet == toBg = <<>>

PassStep ==
  \/ \E t \in ReplayTabs : \E p \in 1..Len(passes[t]) : Quiet /\ ElementNotFound(t, p)
  \/ \E t \in ReplayTabs : \E p \in 1..Len(passes[t]) : Quiet /\ ElementFoundClick(t, p)
  \/ \E t \in ReplayTabs : \E p \in 1..Len(passes[t]) : Quiet /\ ElementFoundFill(t, p)
  \/ \E t \in ReplayTabs : \E p \in 1..Len(passes[t]) : Quiet /\ DomSettled(t, p)

TimerStep ==
  \/ \E k \in 1..Len(timers) : Quiet /\ ResumeProbeAnswered(k)
  \/ \E k \in 1..Len(timers) : Quiet /\ ResumeProbeFailed(k)
  \/ \E k \in 1..Len(timers) : Quiet /\ ReinjectDone(k)
  \/ \E k \in 1..Len(timers) : Quiet /\ ReinjectFailed(k)

\* the popup starts a replay when the tab's previous replay is over
PopupReplay ==
  \E t \in ReplayTabs :
    /\ Quiet
    /\ replayCount < MaxReplays
    /\ passes[t] = <<>> /\ timers = <<>> /\ ~tabLoading[t]
    /\ StartReplay(t, script)

\* the popup is opened
PopupOpens == Quiet /\ PopupTakesResults

\* the replayed tab goes anywhere; the other tab stays on its site
TabNavigates ==
  \E t \in AllTabs : \E host \in Hosts :
    /\ Quiet
    /\ navCount < MaxNavs
    /\ t \notin ReplayTabs => host = OriginHost
    /\ Navigate(t, host)

PageLoads ==
  \/ \E t \in AllTabs : Quiet /\ ContentScriptLoaded(t)
  \/ \E t \in AllTabs : Quiet /\ LoadComplete(t)

(* Replay across navigations.  The service worker handles an event before    *)
(* the page or the browser takes its next step: its handlers run in          *)
(* microseconds, the page's waits take at least 150 ms.                      *)
Init == InitWith(ScriptsUpTo(MaxNavSteps))

Next ==
  \/ OnReplayStarted
  \/ OnReplayProgress
  \/ OnReplayFinished
  \/ OnTabUpdated
  \/ PassStep
  \/ TimerStep
  \/ PopupReplay
  \/ PopupOpens
  \/ TabNavigates
  \/ PageLoads

Spec == Init /\ [][Next]_vars

\* The browser delivers what it has dispatched, timers fire, a page that is
\* not destroyed goes on; the user and navigations are under no obligation.
FairSpec ==
  /\ Spec
  /\ WF_vars(OnReplayStarted \/ OnReplayProgress \/ OnReplayFinished \/ OnTabUpdated)
  /\ WF_vars(PassStep)
  /\ WF_vars(TimerStep)
  /\ WF_vars(PageLoads)

(* Replay within one page: no navigation *)
InitPass == InitWith(ScriptsUpTo(MaxSteps))

NextPass ==
  \/ OnReplayStarted
  \/ OnReplayProgress
  \/ OnReplayFinished
  \/ PassStep
  \/ PopupReplay
  \/ PopupOpens

SpecPass == InitPass /\ [][NextPass]_vars

MaxWaitSteps == 2

InitWait == InitWith(ScriptsUpTo(MaxWaitSteps))

\* the steps of a pass with the clock: a wait that is over by its timer ends
\* when the timer has fired
TimedPassStep ==
  \/ \E t \in ReplayTabs : \E p \in 1..Len(passes[t]) :
       Quiet /\ Elapsed(t, p) /\ ElementNotFound(t, p)
  \/ \E t \in ReplayTabs : \E p \in 1..Len(passes[t]) : Quiet /\ ElementFoundClick(t, p)
  \/ \E t \in ReplayTabs : \E p \in 1..Len(passes[t]) : Quiet /\ ElementFoundFill(t, p)
  \/ \E t \in ReplayTabs : \E p \in 1..Len(passes[t]) :
       Quiet /\ Elapsed(t, p) /\ DomSettled(t, p)

TimerFires ==
  \E t \in ReplayTabs : \E p \in 1..Len(passes[t]) :
    Quiet /\ Elapsed(t, p) /\ (ElementNotFound(t, p) \/ DomSettled(t, p))

ClockStep ==
  \E t \in ReplayTabs : \E p \in 1..Len(passes[t]) : Quiet /\ Tick(t, p)

PageMutates ==
  \E t \in ReplayTabs : \E p \in 1..Len(passes[t]) : Quiet /\ SettleMutation(t, p)

NextWait ==
  \/ OnReplayStarted
  \/ OnReplayProgress
  \/ OnReplayFinished
  \/ TimedPassStep
  \/ ClockStep
  \/ PageMutates
  \/ PopupReplay
  \/ PopupOpens

SpecWait == InitWait /\ [][NextWait]_vars

\* the service worker handles what it is sent, the clock goes on and a timer
\* that is due fires; the page mutates, or shows an element, as it likes
FairWait ==
  /\ SpecWait
  /\ WF_vars(OnReplayStarted \/ OnReplayProgress \/ OnReplayFinished)
  /\ WF_vars(ClockStep)
  /\ WF_vars(TimerFires)

InitDom == InitWith({<<>>})

NextDom ==
  \/ \E depth \in 1..MaxDepth : \E tag \in Tags : AddElement(depth, tag)
  \/ \E i \in 1..Len(doc) : ResolveElement(i)

SpecDom == InitDom /\ [][NextDom]_vars

NextAttr ==
  \/ \E depth \in 1..MaxDepth : \E tag \in Tags \ {"input"} : AddContainer(depth, tag)
  \/ \E depth \in 1..MaxDepth : \E id \in Ids : \E name \in Names : \E qa \in Qas :
       AddInput(depth, id, name, qa)
  \/ \E i \in 1..Len(doc) : ResolveElement(i)

SpecAttr == InitDom /\ [][NextAttr]_vars

InitForm == InitWith(FormScriptsUpTo(MaxFormSteps))

SpecForm == InitForm /\ [][NextPass]_vars

(* Recording in one page *)
InitRec == InitWith({<<>>})

RecorderStep ==
  \E t \in ReplayTabs :
    \/ Quiet /\ StartRecording(t)
    \/ Quiet /\ StopRecording(t)
    \/ \E el \in Elements : \E v \in Values :
         Quiet /\ eventCount < MaxEvents /\ OnInput(t, el, v)
    \/ \E el \in Elements :
         Quiet /\ eventCount < MaxEvents /\ OnClickCapture(t, el)

NextRec == OnStepCaptured \/ RecorderStep

SpecRec == InitRec /\ [][NextRec]_vars

InitUi == InitWith({<<>>})

PopupStep ==
  \/ Quiet /\ PopupInit
  \/ Quiet /\ PopupRecord
  \/ Quiet /\ PopupStop
  \/ Quiet /\ PopupDiscard
  \/ Quiet /\ PopupLeavesSave
  \/ Quiet /\ PopupCloses

PageStep ==
  \E t \in AllTabs :
    \/ Quiet /\ SwitchTab(t)
    \/ Quiet /\ OverlayStop(t)
    \/ \E el \in Elements : \E v \in Values :
         Quiet /\ eventCount < MaxUiEvents /\ OnInput(t, el, v)
    \/ \E el \in Elements :
         Quiet /\ eventCount < MaxUiEvents /\ OnClickCapture(t, el)

NextUi == OnStepCaptured \/ PopupStep \/ PageStep

SpecUi == InitUi /\ [][NextUi]_vars

-----------------------------------------------------------------------------
(* Properties of the replay coordinator *)

\* this step handles a navigation-complete signal
NavSignalStep == IsHead("TAB_UPDATED") /\ toBg' = Tail(toBg)

\* ... of the tab of the active session
SessionNavStep ==
  /\ NavSignalStep
  /\ HasSession
  /\ Head(toBg).tab = Session.tabId

CoordinatorUnchanged == UNCHANGED <<replayState, pendingReplayResults, timers>>

\* the continuation the listener schedules after progress k
Continuation(k) ==
  [tabId |-> Session.tabId, steps |-> Session.steps, startIndex |-> k + 1,
   stage |-> "timer"]

\* C1: whenever a session is active for tab T with originHostname H, whatever
\* progress was reported, a navigation-complete signal for T with another
\* hostname sets aborted and appends the warning in the accumulated report and
\* discards the session; a navigation-complete signal without a session
\* leaves the coordinator unchanged.
C1_CrossDomainAbort ==
  [][ /\ (SessionNavStep /\ Head(toBg).host /= Session.originHostname)
         => /\ replayState' = <<>>
            /\ pendingReplayResults' /= <<>>
            /\ pendingReplayResults'[1].aborted
            /\ pendingReplayResults'[1].warnings =
                 Append((IF HasReport THEN Report ELSE EmptyReport).warnings,
                        AbortWarning(Head(toBg).host))
      /\ (NavSignalStep /\ ~HasSession) => CoordinatorUnchanged
    ]_vars

\* the signal of C2: same hostname, steps left after the reported progress
ResumeSignalStep ==
  /\ SessionNavStep
  /\ Head(toBg).host = Session.originHostname
  /\ Session.lastCompletedIndex + 1 < Len(Session.steps)

\* the k-th scheduled continuation ends in this step
ContinuationEnds(k) == k \in 1..Len(timers) /\ timers' = RemoveAt(timers, k)

\* CONTINUE_REPLAY of the k-th continuation reaches the page: replayScript
\* starts from its startIndex over its steps
ContinueReplayRuns(k) ==
  LET r == timers[k] IN
  /\ Len(passes'[r.tabId]) = Len(passes[r.tabId]) + 1
  /\ LET pass == passes'[r.tabId][Len(passes'[r.tabId])] IN
       /\ pass.i = r.startIndex
       /\ pass.startIndex = r.startIndex
       /\ pass.sorted = SortByOrder(r.steps)
       /\ pass.pc = "wait"
       /\ pass.log = <<>>

-----------------------------------------------------------------------------
(* Properties of a replay pass *)

AllPasses == UNION { { <<t, p>> : p \in 1..Len(passes[t]) } : t \in AllTabs }

PassAt(tp) == passes[tp[1]][tp[2]]

\* the click of a click step was performed and the pass waits for the DOM
Clicked(pass) ==
  pass.pc = "settle" /\ InLoop(pass) /\ StepOf(pass).action = "click"

\* the p-th pass of tab t performs a click in this step
ClickPerformed(t, p) ==
  /\ Len(passes'[t]) = Len(passes[t])
  /\ LET old == passes[t][p].log
         new == passes'[t][p].log
     IN /\ Len(new) > Len(old)
        /\ \E n \in (Len(old) + 1)..Len(new) : new[n].kind = "click"

\* C3: a pass that performs the click of the click step at sorted index i
\* has sent REPLAY_PROGRESS with lastCompletedIndex = i first, and the click
\* is the next thing it does; the coordinator, when it handles the signal
\* with a session active, holds lastCompletedIndex = i.
C3_ProgressBeforeClick ==
  [][ /\ \A t \in AllTabs : \A p \in 1..Len(passes[t]) :
           ClickPerformed(t, p)
             => LET pass == passes[t][p]
                    i    == pass.i
                    at   == [idx |-> i, order |-> pass.sorted[i + 1].order]
                IN
                /\ pass.sorted[i + 1].action = "click"
                /\ passes'[t][p].log = pass.log \o
                     << [kind |-> "progress", idx |-> at.idx, order |-> at.order],
                        [kind |-> "click", idx |-> at.idx, order |-> at.order] >>
                /\ toBg' = Append(toBg, [type |-> "REPLAY_PROGRESS", tab |-> t,
                                         lastCompletedIndex |-> i])
      /\ (IsHead("REPLAY_PROGRESS") /\ HasSession /\ toBg' = Tail(toBg))
           => /\ replayState' /= <<>>
              /\ replayState'[1].lastCompletedIndex = Head(toBg).lastCompletedIndex
    ]_vars

\* a click was performed at index 1 and the coordinator holds that index
C3_Clicked ==
  /\ toBg = <<>>
  /\ HasSession
  /\ Len(passes[1]) = 1
  /\ Clicked(passes[1][1])
  /\ passes[1][1].i = 1
  /\ Session.lastCompletedIndex = 1

Effects(log) == SelectSeq(log, LAMBDA e : e.kind /= "progress")

Kind(log, kind) == SelectSeq(log, LAMBDA e : e.kind = kind)

Total(results) == results.filled + results.clicked + results.skipped

\* C4: every step whose element is not found adds one to skipped and one
\* warning naming the step's selector and label, and no effect; the steps
\* after it are still processed, one after the other; a replay within one
\* page reports as many steps as the script has.
C4_SkipAndContinue ==
  /\ \A tp \in AllPasses :
       LET pass  == PassAt(tp)
           skips == Kind(pass.log, "skip")
           eff   == Effects(pass.log)
       IN
       /\ pass.results.skipped = Len(skips)
       /\ pass.results.warnings =
            [n \in 1..Len(skips) |-> Warning(pass.sorted[skips[n].idx + 1])]
       /\ pass.results.filled = Len(Kind(pass.log, "fill"))
       /\ pass.results.clicked = Len(Kind(pass.log, "click"))
       /\ \A n \in 1..Len(eff) : eff[n].idx = pass.startIndex + n - 1
       /\ Len(eff) = pass.i - pass.startIndex + (IF pass.pc = "settle" THEN 1 ELSE 0)
  /\ \A m \in 1..Len(toBg) :
       toBg[m].type = "REPLAY_FINISHED" => Total(toBg[m].results) = Len(script)

\* three fills of which the second was skipped
C4_SecondSkipped ==
  /\ script = InOrder(<<"fill", "fill", "fill">>)
  /\ IsHead("REPLAY_FINISHED")
  /\ Head(toBg).results.filled = 2
  /\ Head(toBg).results.clicked = 0
  /\ Head(toBg).results.skipped = 1
  /\ Head(toBg).results.warnings = << <<(<<"sel", 2>>), (<<"lbl", 2>>)>> >>

\* C5: whatever the storage order of the steps, a pass goes through them in
\* ascending order: the effects of a pass have increasing order values, and
\* index i of a pass, the first one or a continuation, is the step with the
\* (i+1)-th smallest order.
C5_ReplayOrder ==
  \A tp \in AllPasses :
    LET pass == PassAt(tp)
        eff  == Effects(pass.log)
    IN
    /\ \A a, b \in 1..Len(pass.sorted) :
         a < b => pass.sorted[a].order < pass.sorted[b].order
    /\ \A a, b \in 1..Len(eff) : a < b => eff[a].order < eff[b].order
    /\ \A n \in 1..Len(pass.log) : pass.log[n].order = OrderOf(pass.log[n].idx + 1)
    /\ pass.log /= <<>> => pass.log[1].idx = pass.startIndex

\* a continuation of a script stored out of order has applied a step
C5_ContinuationInOrder ==
  /\ \E a, b \in 1..Len(script) : a < b /\ script[a].order > script[b].order
  /\ \E p \in 1..Len(passes[1]) :
       /\ passes[1][p].startIndex > 0
       /\ passes[1][p].log /= <<>>

\* C6: when one replay that went over a same-domain navigation has run to
\* the end, the stored report counts every step processed in all segments.
C6_AccumulatedReport ==
  (/\ replayCount = 1
   /\ lastEvt = "finished_merged"
   /\ HasReport
   /\ ~HasSession
   /\ toBg = <<>>
   /\ passes[1] = <<>>)
  => Total(Report) = processed

\* C7: a navigation-complete signal for the session's tab is not ignored:
\* with the origin hostname, the session is discarded when
\* lastCompletedIndex + 1 >= steps.length, and replay is continued at
\* lastCompletedIndex + 1 otherwise, which is 0 when nothing was reported.
C7_NeverIgnored ==
  [][ SessionNavStep
        => /\ ~CoordinatorUnchanged
           /\ Head(toBg).host = Session.originHostname
                => IF Session.lastCompletedIndex + 1 >= Len(Session.steps)
                   THEN replayState' = <<>> /\ timers' = timers
                   ELSE timers' = Append(timers,
                                         Continuation(Session.lastCompletedIndex))
    ]_vars

\* C8: every session is eventually destroyed.
C8_SessionEnds == HasSession ~> ~HasSession

\* C9: REPLAY_FINISHED with a session active and a report accumulated: the
\* stored counts become the sums, the warnings the accumulated ones followed
\* by the reported ones, and the session is discarded.
C9_FinishMerge ==
  [][ (IsHead("REPLAY_FINISHED") /\ HasSession /\ HasReport /\ toBg' = Tail(toBg))
        => /\ pendingReplayResults' /= <<>>
           /\ pendingReplayResults'[1].filled =
                Report.filled + Head(toBg).results.filled
           /\ pendingReplayResults'[1].clicked =
                Report.clicked + Head(toBg).results.clicked
           /\ pendingReplayResults'[1].skipped =
                Report.skipped + Head(toBg).results.skipped
           /\ pendingReplayResults'[1].warnings =
                Report.warnings \o Head(toBg).results.warnings
           /\ replayState' = <<>>
    ]_vars

\* a report with counts and warnings was merged with a reported one
C9_Merged ==
  /\ lastEvt = "finished_merged"
  /\ HasReport
  /\ ~HasSession
  /\ Report.filled > 0
  /\ Report.skipped > 0
  /\ Len(Report.warnings) = Report.skipped
  /\ Total(Report) > processed
  /\ processed > 0

-----------------------------------------------------------------------------
(* Properties of the recorder *)

FillsOf(fields, selector) ==
  SelectSeq(fields, LAMBDA f : f.action = "fill" /\ f.selector = selector)

\* C10: the input and change events on a field during one recording leave one
\* fill step for its selector in the buffer, with the value of the last event
\* and the order given at the first.
C10_Dedupe ==
  \A t \in AllTabs : \A sel \in Selectors :
    inputLog[t][sel].count > 0
      => LET fills == FillsOf(capturedFields[t], sel) IN
         /\ Len(fills) = 1
         /\ fills[1].value = inputLog[t][sel].lastValue
         /\ fills[1].order = inputLog[t][sel].firstOrder

\* the input or change event of this step was handled for selector sel
InputHandled(t, sel) == inputLog'[t][sel].count = inputLog[t][sel].count + 1

HasFill(fields, selector) ==
  \E k \in 1..Len(fields) :
    fields[k].selector = selector /\ fields[k].action = "fill"

\* C11: an input or change event updates a step in place only when the buffer
\* has a fill step with the event's selector; otherwise every step already in
\* the buffer, a click step with that selector included, is left as it is and
\* a new fill step with the next order number is appended.
C11_FillOnlyDedupe ==
  [][\A t \in AllTabs : \A sel \in Selectors :
       InputHandled(t, sel) =>
         LET before == capturedFields[t]
             after  == capturedFields'[t]
         IN IF HasFill(before, sel)
            THEN /\ Len(after) = Len(before)
                 /\ \A k \in 1..Len(before) :
                      \/ after[k] = before[k]
                      \/ /\ before[k].action = "fill"
                         /\ before[k].selector = sel
                         /\ after[k] = WithValue(before[k], inputLog'[t][sel].lastValue)
            ELSE /\ Len(after) = Len(before) + 1
                 /\ SubSeq(after, 1, Len(before)) = before
                 /\ after[Len(after)].action = "fill"
                 /\ after[Len(after)].selector = sel
                 /\ after[Len(after)].order = fieldOrder[t] + 1]_vars

\* C12: in every recorder state the steps of the buffer carry, in append
\* order, the order values 1, 2, ..., n, fills and clicks numbered by the one
\* counter, which stands at n.
C12_OrderNumbering ==
  \A t \in AllTabs :
    /\ \A k \in 1..Len(capturedFields[t]) : capturedFields[t][k].order = k
    /\ recording[t] => fieldOrder[t] = Len(capturedFields[t])

\* a fill, a click and a fill on another field were recorded: orders 1, 2, 3
C12_FillClickFill ==
  \E t \in AllTabs :
    /\ Len(capturedFields[t]) = 3
    /\ [k \in 1..3 |-> capturedFields[t][k].action] = <<"fill", "click", "fill">>
    /\ [k \in 1..3 |-> capturedFields[t][k].order] = <<1, 2, 3>>
    /\ capturedFields[t][1].selector /= capturedFields[t][3].selector

\* the same steps in the same order; the value of a step is what later input
\* events made of it
SameSteps(fields, pushed) ==
  /\ Len(fields) = Len(pushed)
  /\ \A k \in 1..Len(pushed) :
       /\ DOMAIN pushed[k] \subseteq DOMAIN fields[k]
       /\ \A f \in DOMAIN pushed[k] \ {"value"} : fields[k][f] = pushed[k][f]

\* C14: a start takes an idle recorder to recording with an empty buffer and
\* the counter at 0; a stop takes it to idle and answers with the buffer, which
\* holds the steps pushed since the last start in the order they were pushed;
\* whatever happens to an idle recorder that stays idle leaves the buffer and
\* the counter as they were.
C14_Lifecycle ==
  [][\A t \in AllTabs :
       /\ (~recording[t] /\ recording'[t])
            => capturedFields'[t] = <<>> /\ fieldOrder'[t] = 0
       /\ (recording[t] /\ ~recording'[t])
            => /\ returned'[t] = capturedFields[t]
               /\ SameSteps(returned'[t], appended[t])
       /\ (~recording[t] /\ ~recording'[t])
            => /\ capturedFields'[t] = capturedFields[t]
               /\ fieldOrder'[t] = fieldOrder[t]]_vars

\* a recording was stopped with two steps, and events went by while idle
C14_StoppedWithSteps ==
  \E t \in AllTabs :
    /\ ~recording[t]
    /\ Len(returned[t]) = 2
    /\ returned[t] = capturedFields[t]
    /\ \A k \in 1..2 : returned[t][k].action = "click"
    /\ eventCount = 4

ClickSteps(fields) == SelectSeq(fields, LAMBDA f : f.action = "click")

\* C15: every click on a click target while recording appends a click step
\* with the next order number and leaves the steps before it alone, whatever
\* steps the buffer holds for that selector, so the buffer has as many click
\* steps as there were such clicks.
C15_ClicksNeverDeduped ==
  [][\A t \in AllTabs :
       clicks'[t] = clicks[t] + 1 =>
         LET before == capturedFields[t]
             after  == capturedFields'[t]
         IN /\ Len(after) = Len(before) + 1
            /\ SubSeq(after, 1, Len(before)) = before
            /\ after[Len(after)].action = "click"
            /\ after[Len(after)].order = fieldOrder[t] + 1
            /\ Len(ClickSteps(after)) = clicks'[t]]_vars

\* a fill and two clicks recorded for one selector
C15_RepeatedClicks ==
  \E t \in AllTabs : \E sel \in Selectors :
    /\ clicks[t] = 2
    /\ Len(capturedFields[t]) = 3
    /\ \A k \in 1..3 : capturedFields[t][k].selector = sel
    /\ [k \in 1..3 |-> capturedFields[t][k].action] = <<"fill", "click", "click">>

CaptureType(step) ==
  IF step.action = "fill" THEN "FIELD_CAPTURED" ELSE "STEP_CAPTURED"

\* C16: a step pushed onto the buffer is announced by one capture event that
\* carries it, FIELD_CAPTURED for a fill and STEP_CAPTURED for a click; an
\* update of a step in place sends nothing; the capture events sent since the
\* last start are as many as the buffer has steps.
C16_OneEventPerStep ==
  [][\A t \in AllTabs :
       LET before == capturedFields[t]
           after  == capturedFields'[t]
       IN /\ Len(after) = Len(before) + 1
               => toBg' = Append(toBg, CaptureMsg(CaptureType(after[Len(after)]),
                                                  t, after[Len(after)]))
          /\ (Len(after) = Len(before) /\ after /= before) => toBg' = toBg
          /\ sent'[t] = Len(after)]_vars

\* two steps announced, one of them updated afterwards by a further event
C16_UpdatedSilently ==
  \E t \in AllTabs : \E sel \in Selectors :
    /\ recording[t]
    /\ inputLog[t][sel].count = 2
    /\ Len(capturedFields[t]) = 2
    /\ sent[t] = 2
    /\ \E k \in 1..2 : capturedFields[t][k].action = "click"

Recorders == { t \in AllTabs : recording[t] }

\* C13: at any moment at most one tab's recorder is recording, and the service
\* worker has a recording tab on record exactly while some recorder records.
C13_OneRecording ==
  /\ Cardinality(Recorders) <= 1
  /\ (recordingTabId /= 0) <=> (Recorders /= {})

Dispatches(events, e) == \E n \in 1..Len(events) : events[n] = e

\* pass p of tab t applies a fill step in this step
FillApplied(t, p) ==
  /\ Len(passes'[t]) = Len(passes[t])
  /\ passes[t][p].pc = "wait"
  /\ passes'[t][p].pc = "settle"
  /\ StepOf(passes[t][p]).action = "fill"

\* C17: a checkbox fill step whose value is the checkbox's checked state
\* leaves the state as it is and dispatches no event; one whose value differs
\* sets the state to the value and dispatches change and input; either way
\* filled grows by one.
C17_CheckboxIdempotence ==
  [][\A t \in AllTabs : \A p \in 1..Len(passes[t]) :
       (FillApplied(t, p) /\ StepOf(passes[t][p]).type = "checkbox") =>
         LET step == StepOf(passes[t][p]) IN
         /\ passes'[t][p].results.filled = passes[t][p].results.filled + 1
         /\ \A box \in Checkboxes \ {step.selector} :
              checked'[t][box] = checked[t][box]
         /\ IF checked[t][step.selector] = step.value
            THEN /\ checked'[t][step.selector] = checked[t][step.selector]
                 /\ dispatched'[t] = <<>>
            ELSE /\ checked'[t][step.selector] = step.value
                 /\ Dispatches(dispatched'[t], "change")
                 /\ Dispatches(dispatched'[t], "input")]_vars

\* a checkbox checked by the first step was given the same value by the second
C17_SecondCallNoOp ==
  \E t \in AllTabs : \E p \in 1..Len(passes[t]) :
    LET pass == passes[t][p] IN
    /\ pass.pc = "settle" /\ pass.i = 1
    /\ pass.results.filled = 2
    /\ pass.sorted[1].type = "checkbox" /\ pass.sorted[2].type = "checkbox"
    /\ pass.sorted[1].selector = pass.sorted[2].selector
    /\ pass.sorted[1].value /\ pass.sorted[2].value
    /\ checked[t][pass.sorted[2].selector]
    /\ dispatched[t] = <<>>

\* C18: in a page that is not destroyed, a replay that has started returns:
\* every wait for an element and every wait for the page to settle ends,
\* whatever the page does.
C18_ReplayTerminates ==
  \A t \in ReplayTabs : (passes[t] /= <<>>) ~> (passes[t] = <<>>)

Inputs(d) == { i \in 1..Len(d) : d[i].tag = "input" }

\* the selector returned matches the element it was asked for and no other
FindsTargetOnly == QuerySelectorAll(doc, result.selector) = {target}

\* C19: a selector by name that getSelector returns with fragile = FALSE,
\* plain or scoped to a form, matches one element of the document, the one it
\* was asked for; of two same-named inputs in two forms each gets a scoped
\* selector, wherever the forms are; of two same-named inputs outside any
\* form each gets a positional selector with fragile = TRUE.
C19_NameSelectorIdentifies ==
  target /= 0 =>
    /\ ~result.fragile => FindsTargetOnly
    /\ \A other \in Inputs(doc) \ {target} :
         /\ ( /\ Inputs(doc) = {target, other}
              /\ ClosestForm(doc, target) /= 0
              /\ ClosestForm(doc, other) /= 0
              /\ ClosestForm(doc, target) /= ClosestForm(doc, other) )
              => result.selector.kind = "scoped" /\ ~result.fragile
         /\ ( /\ Inputs(doc) = {target, other}
              /\ ClosestForm(doc, target) = 0
              /\ ClosestForm(doc, other) = 0 )
              => result.selector.kind = "path" /\ result.fragile

\* C20: a positional selector that getSelector returns with fragile = TRUE,
\* given to querySelector at once, finds the element it was built for.
C20_PositionalRoundTrip ==
  (target /= 0 /\ result.fragile)
     => QuerySelector(doc, result.selector) = target

\* the elements of the document that have the target's tag and name, the
\* target's data-qa value, and the forms counted by :nth-of-type(n)
SameName == { j \in 1..Len(doc) :
                doc[j].tag = doc[target].tag /\ doc[j].name = doc[target].name }

SameQa == { j \in 1..Len(doc) : doc[j].qa = doc[target].qa }

InNthForm(n) ==
  { j \in SameName :
      \E f \in 1..(j - 1) :
        /\ doc[f].tag = "form"
        /\ f \in Ancestors(doc, j)
        /\ Cardinality({ g \in 1..f : doc[g].tag = "form"
                                       /\ Parent(doc, g) = Parent(doc, f) }) = n }

\* the number getSelector gives the target's form
NumberOfForm ==
  Cardinality({ f \in 1..ClosestForm(doc, target) : doc[f].tag = "form" })

\* C21: getSelector returns #id for an element with an id; else the plain
\* name selector if the name is there and unique; else the name selector
\* scoped to the form if the element is in a form and that selector is
\* unique; else the data-qa selector if it is there and unique; else the
\* positional selector; fragile is TRUE exactly for the positional selector.
C21_SelectorPriority ==
  target /= 0 =>
    LET el   == doc[target]
        kind == result.selector.kind
    IN
    /\ result.fragile <=> kind = "path"
    /\ IF el.id /= ""
       THEN kind = "id" /\ result.selector.id = el.id
       ELSE IF el.name /= "" /\ SameName = {target}
       THEN /\ kind = "name"
            /\ result.selector.tag = el.tag /\ result.selector.name = el.name
       ELSE IF /\ el.name /= ""
               /\ ClosestForm(doc, target) /= 0
               /\ Cardinality(InNthForm(NumberOfForm)) = 1
       THEN /\ kind = "scoped"
            /\ result.selector.n = NumberOfForm
            /\ result.selector.tag = el.tag /\ result.selector.name = el.name
       ELSE IF el.qa /= "" /\ SameQa = {target}
       THEN kind = "qa" /\ result.selector.qa = el.qa
       ELSE kind = "path"

\* an input that has a name that is not unique and a unique data-qa value
C21_QaAfterName ==
  /\ target /= 0
  /\ doc[target].id = "" /\ doc[target].name /= ""
  /\ result.selector.kind = "qa"

\* the element at depth k on the way from body down to element i
AtDepth(d, i, k) == CHOOSE j \in Ancestors(d, i) \cup {i} : d[j].depth = k

\* the elements under the same parent with the same tag, the element included
Twins(d, e) ==
  { j \in 1..Len(d) :
      /\ d[j].tag = d[e].tag
      /\ d[j].depth = d[e].depth
      /\ \A k \in (IF j < e THEN j ELSE e)..(IF j < e THEN e ELSE j) :
           d[k].depth >= d[e].depth }

\* C22: a positional selector has one segment for each level from the child
\* of body down to the element; the segment is the bare tag when the element
\* of that level has no sibling of its tag, and tag:nth-of-type(k), k its
\* place among the siblings of its tag counted from 1, when it has.
C22_PositionalMinimal ==
  (target /= 0 /\ result.selector.kind = "path") =>
    LET parts == result.selector.parts IN
    /\ Len(parts) = doc[target].depth
    /\ \A k \in 1..Len(parts) :
         LET e == AtDepth(doc, target, k) IN
         /\ parts[k].tag = doc[e].tag
         /\ IF Twins(doc, e) = {e}
            THEN parts[k].nth = 0
            ELSE parts[k].nth = Cardinality({ j \in Twins(doc, e) : j <= e })

\* a path with a bare segment and, below it, a segment with :nth-of-type(2)
C22_BareAndNth ==
  /\ target /= 0
  /\ result.selector.kind = "path"
  /\ Len(result.selector.parts) = 2
  /\ result.selector.parts[1].nth = 0
  /\ result.selector.parts[2].nth = 2

-----------------------------------------------------------------------------
(* Scripts in storage *)

InitStore == InitWith({<<>>})

NextStore ==
  \/ \E id \in ScriptIds : \E force, isPaid \in BOOLEAN : \E created_at \in CreatedAts(id) :
       SaveScript(Entry(id, 0, 0, created_at), force, isPaid)
  \/ \E id \in ScriptIds : DeleteScript(id)

SpecStore == InitStore /\ [][NextStore]_vars

\* the entries of a list that carry the id
WithId(list, id) == SelectSeq(list, LAMBDA s : s.id = id)

\* C23: after deleteScript(id) of an id that storage held, getScript(id) is null,
\* getScripts() has no script with that id, and the raw list still holds an entry
\* for the id that has deleted_at set.
C23_SoftDelete ==
  (lastCall.op = "deleteScript" /\ WithId(ReadChunked(lastCall.before), lastCall.id) # <<>>)
    => /\ GetScript(local, lastCall.id) = <<>>
       /\ WithId(GetScripts(local), lastCall.id) = <<>>
       /\ \E i \in 1..Len(ReadChunked(local)) :
            /\ ReadChunked(local)[i].id = lastCall.id
            /\ ReadChunked(local)[i].deleted_at # 0

\* a call of a free user that is not forced, or a delete
FreeCall == now' # now /\ (lastCall'.op = "deleteScript" \/ lastCall'.limited)

\* C24: a non-forced save by a free user of an id that is not live, made with 2 or
\* more live scripts, throws and leaves storage unchanged; deleting a live script
\* leaves one live script less; and from at most 2 live scripts no non-forced save
\* or delete of a free user leaves more than 2.
C24_FreeLimit ==
  [][ /\ ( /\ now' # now
           /\ lastCall'.op = "saveScript"
           /\ lastCall'.limited
           /\ GetScript(local, lastCall'.id) = <<>>
           /\ Len(GetScripts(local)) >= FREE_MAX_SCRIPTS )
         => (lastCall'.threw /\ local' = local)
      /\ ( /\ now' # now
           /\ lastCall'.op = "deleteScript"
           /\ GetScript(local, lastCall'.id) # <<>> )
         => Len(GetScripts(local')) = Len(GetScripts(local)) - 1
      /\ (FreeCall /\ Len(GetScripts(local)) <= FREE_MAX_SCRIPTS)
         => Len(GetScripts(local')) <= FREE_MAX_SCRIPTS ]_vars

-----------------------------------------------------------------------------
(* Chunked storage *)

MaxListLen == 2          \* scripts of a list handed to _writeChunked

\* the scripts a list is made of, live or soft-deleted
ListScripts ==
  { [Entry(id, 0, 0, 1) EXCEPT !.deleted_at = deleted_at] : id \in {1, 2}, deleted_at \in {0, 2} }

RECURSIVE ListsUpTo(_)
ListsUpTo(n) ==
  IF n = 0 THEN { <<>> }
  ELSE ListsUpTo(n - 1)
       \cup { Append(list, s) : list \in { l \in ListsUpTo(n - 1) : Len(l) = n - 1 }, s \in ListScripts }

\* a call of _writeChunked(scripts)
WriteList(scripts) ==
  /\ local' = WriteChunked(local, scripts)
  /\ lastCall' = Called("writeChunked", 0, FALSE, FALSE, <<scripts>>)
  /\ UNCHANGED <<coordVars, tabVars, recVars, obsVars, uiVars, pageVars, domVars, apiVars, waitVars, now, syncVars>>

NextChunk == \E scripts \in ListsUpTo(MaxListLen) : WriteList(scripts)

SpecChunk == InitStore /\ [][NextChunk]_vars

\* C26: _readChunked after a completed _writeChunked(list) returns the list, for
\* any number of chunks and any chunk count stored before, and storage holds no
\* chunk beyond the count.
C26_ChunkRoundTrip ==
  lastCall.op = "writeChunked"
    => /\ ReadChunked(local) = lastCall.written[1]
       /\ local.steno_scripts_count = (Len(Stringify(lastCall.written[1])) + CHUNK_SIZE - 1) \div CHUNK_SIZE
       /\ DOMAIN local.steno_scripts = 0..(local.steno_scripts_count - 1)

\* a list of several chunks is read back after a longer list had been stored
C26_ShorterAfterLonger ==
  /\ lastCall.op = "writeChunked"
  /\ lastCall.before.steno_scripts_count > local.steno_scripts_count
  /\ local.steno_scripts_count > 1
  /\ lastCall.written[1] # <<>>
  /\ ReadChunked(local) = lastCall.written[1]

-----------------------------------------------------------------------------
(* Sites, personas and the scripts grouped under them *)

\* p.site_id === id, without and with the test of deleted_at
AnyInSite(e, id) == e.site_id = id

LiveInSite(e, id) == e.site_id = id /\ e.deleted_at = 0

\* a site is an entry without site_id and persona_id, a persona one without persona_id
DeleteSite(id) ==
  /\ now < MaxStoreOps
  /\ now' = now + 1
  /\ LET allSites    == local.steno_sites
         index       == FindIndex(allSites, id)
         sites       == IF index > 0
                        THEN [allSites EXCEPT ![index].deleted_at = now',
                                              ![index].updated_at = now']
                        ELSE allSites
         allPersonas == local.steno_personas
         personas    == [i \in 1..Len(allPersonas) |->
                           IF LiveInSite(allPersonas[i], id)
                           THEN [allPersonas[i] EXCEPT !.deleted_at = now', !.updated_at = now']
                           ELSE allPersonas[i]]
         allScripts  == ReadChunked(local)
         scripts     == [i \in 1..Len(allScripts) |->
                           IF LiveInSite(allScripts[i], id)
                           THEN [allScripts[i] EXCEPT !.site_id = 0, !.persona_id = 0,
                                                      !.updated_at = now']
                           ELSE allScripts[i]]
     IN /\ local' = WriteChunked([local EXCEPT !.steno_sites = sites,
                                               !.steno_personas = personas], scripts)
        /\ lastCall' = Called("deleteSite", id, FALSE, FALSE, <<scripts>>)
  /\ UNCHANGED <<coordVars, tabVars, recVars, obsVars, uiVars, pageVars, domVars, apiVars, waitVars, syncVars>>

\* an entry saved at clock reading 1 and, when deleted, soft-deleted at the same reading
Stored(id, site_id, persona_id, deleted) ==
  [Entry(id, site_id, persona_id, 1) EXCEPT !.deleted_at = IF deleted THEN 1 ELSE 0]

\* storage after two sites, two personas and two scripts were saved, each of them
\* soft-deleted or not: saves check neither the site nor the persona they name
GroupedLocals ==
  { WriteChunked([EmptyLocal EXCEPT !.steno_sites = <<Stored(1, 0, 0, d[1]), Stored(2, 0, 0, d[2])>>,
                                    !.steno_personas = <<Stored(1, ps[1], 0, d[3]),
                                                         Stored(2, ps[2], 0, d[4])>>],
                 <<Stored(1, ss[1], pp[1], d[5]), Stored(2, ss[2], pp[2], d[6])>>) :
      d \in [1..6 -> BOOLEAN], ps \in [1..2 -> SiteIds], ss \in [1..2 -> {0} \cup SiteIds],
      pp \in [1..2 -> {0, 1}] }

\* the clock leaves room for two calls
InitSite == InitLocal({<<>>}, GroupedLocals, MaxStoreOps - 2)

NextSite == \E id \in SiteIds : DeleteSite(id)

SpecSite == InitSite /\ [][NextSite]_vars

\* entry i of a list is the entry it was before, soft-deleted
SoftDeleted(before, after, i) ==
  /\ after[i].deleted_at # 0
  /\ after[i].id = before[i].id
  /\ after[i].site_id = before[i].site_id
  /\ after[i].created_at = before[i].created_at

\* C25: after deleteSite(id) the site and every persona with site_id = id are
\* soft-deleted (kept in raw storage, hidden from getSites and getPersonas), every
\* live script that had site_id = id is live with site_id and persona_id null, and
\* every other site, persona and script is as it was.
C25_SiteCascade ==
  lastCall.op = "deleteSite" =>
    LET id       == lastCall.id
        sites    == lastCall.before.steno_sites
        personas == lastCall.before.steno_personas
        scripts  == ReadChunked(lastCall.before)
    IN /\ Len(local.steno_sites) = Len(sites)
       /\ \A i \in 1..Len(sites) :
            IF sites[i].id = id
            THEN SoftDeleted(sites, local.steno_sites, i)
            ELSE local.steno_sites[i] = sites[i]
       /\ WithId(GetSites(local), id) = <<>>
       /\ Len(local.steno_personas) = Len(personas)
       /\ \A i \in 1..Len(personas) :
            IF personas[i].site_id = id
            THEN SoftDeleted(personas, local.steno_personas, i)
            ELSE local.steno_personas[i] = personas[i]
       /\ \A i \in 1..Len(GetPersonas(local)) : GetPersonas(local)[i].site_id # id
       /\ Len(ReadChunked(local)) = Len(scripts)
       /\ \A i \in 1..Len(scripts) :
            IF scripts[i].site_id = id /\ scripts[i].deleted_at = 0
            THEN ReadChunked(local)[i]
                   = [scripts[i] EXCEPT !.site_id = 0, !.persona_id = 0,
                                        !.updated_at = ReadChunked(local)[i].updated_at]
            ELSE ReadChunked(local)[i] = scripts[i]
       /\ local.steno_api_token = lastCall.before.steno_api_token
       /\ local.steno_api_user = lastCall.before.steno_api_user
       /\ local.steno_last_synced_at = lastCall.before.steno_last_synced_at

\* deleteSite of a live site that has a live persona, with a live script of that
\* persona ungrouped and a live script of the other site left alone
C25_CascadeHappens ==
  /\ lastCall.op = "deleteSite"
  /\ WithId(GetSites(lastCall.before), lastCall.id) # <<>>
  /\ \E i \in 1..Len(GetPersonas(lastCall.before)) :
       GetPersonas(lastCall.before)[i].site_id = lastCall.id
  /\ \E i \in 1..Len(ReadChunked(local)) :
       /\ ReadChunked(local)[i].deleted_at = 0
       /\ ReadChunked(local)[i].site_id = 0
       /\ ReadChunked(lastCall.before)[i].site_id = lastCall.id
       /\ ReadChunked(lastCall.before)[i].persona_id # 0
  /\ \E i \in 1..Len(GetScripts(local)) : GetScripts(local)[i].site_id \notin {0, lastCall.id}

-----------------------------------------------------------------------------
(* ApiService (services/api.js) *)

MaxApiOps == 6           \* ApiService calls and responses in one behaviour
Tokens == {"tok_a", "tok_b"}
Statuses == {200, 401, 500}

\* chrome.storage.local.remove of the token and user entries only, and of all three
RemovedToken(l) == [l EXCEPT !.steno_api_token = "", !.steno_api_user = ""]

Removed(l) ==
  [l EXCEPT !.steno_api_token = "", !.steno_api_user = "", !.steno_last_synced_at = 0]

\* _token and _user after getToken()
Loaded ==
  IF token # "" THEN [token |-> token, user |-> user]
  ELSE [token |-> local.steno_api_token, user |-> local.steno_api_user]

\* expired: a 401 was answered and setToken has not been called since
ApiCalled(op, outcome, expired) ==
  [op |-> op, outcome |-> outcome, expired |-> expired, before |-> local]

SetToken(t, u) ==
  /\ now < MaxApiOps
  /\ now' = now + 1
  /\ token' = t
  /\ user' = u
  /\ local' = [local EXCEPT !.steno_api_token = t, !.steno_api_user = u]
  /\ lastApi' = ApiCalled("setToken", "ok", FALSE)
  /\ UNCHANGED <<coordVars, tabVars, recVars, obsVars, uiVars, pageVars, domVars,
                 lastCall, inflight, waitVars, syncVars>>

ClearToken ==
  /\ now < MaxApiOps
  /\ now' = now + 1
  /\ token' = ""
  /\ user' = ""
  /\ local' = Removed(local)
  /\ lastApi' = ApiCalled("clearToken", "ok", lastApi.expired)
  /\ UNCHANGED <<coordVars, tabVars, recVars, obsVars, uiVars, pageVars, domVars,
                 lastCall, inflight, waitVars, syncVars>>

IsAuthenticated ==
  /\ now < MaxApiOps
  /\ now' = now + 1
  /\ token' = Loaded.token
  /\ user' = Loaded.user
  /\ lastApi' = ApiCalled("isAuthenticated", IF Loaded.token # "" THEN "true" ELSE "false",
                        lastApi.expired)
  /\ UNCHANGED <<coordVars, tabVars, recVars, obsVars, uiVars, pageVars, domVars,
                 local, lastCall, inflight, waitVars, syncVars>>

\* fetch up to the request it sends; sync posts to /api/sync through fetch
Fetch(path) ==
  /\ now < MaxApiOps
  /\ now' = now + 1
  /\ token' = Loaded.token
  /\ user' = Loaded.user
  /\ IF Loaded.token = ""
     THEN /\ lastApi' = ApiCalled("fetch", "Not authenticated", lastApi.expired)
          /\ UNCHANGED inflight
     ELSE /\ lastApi' = ApiCalled("fetch", "sent", lastApi.expired)
          /\ inflight' = Append(inflight, [path |-> path, token |-> Loaded.token])
  /\ UNCHANGED <<coordVars, tabVars, recVars, obsVars, uiVars, pageVars, domVars,
                 local, lastCall, waitVars, syncVars>>

\* fetch from the response of request i on, and sync after it
Respond(i, status) ==
  /\ now < MaxApiOps
  /\ now' = now + 1
  /\ inflight' = SubSeq(inflight, 1, i - 1) \o SubSeq(inflight, i + 1, Len(inflight))
  /\ IF status = 401
     THEN /\ token' = ""
          /\ user' = ""
          /\ local' = Removed(local)
          /\ lastApi' = ApiCalled("response", "Authentication expired", TRUE)
     ELSE IF status # 200
     THEN /\ lastApi' = ApiCalled("response", "API error", lastApi.expired)
          /\ UNCHANGED <<token, user, local>>
     ELSE /\ lastApi' = ApiCalled("response", "ok", lastApi.expired)
          /\ local' = IF inflight[i].path = "/api/sync"
                      THEN [local EXCEPT !.steno_last_synced_at = now']
                      ELSE local
          /\ UNCHANGED <<token, user>>
  /\ UNCHANGED <<coordVars, tabVars, recVars, obsVars, uiVars, pageVars, domVars, lastCall, waitVars, syncVars>>

\* the service worker is stopped and loaded again: api.js runs anew, requests are lost
WorkerRestarts ==
  /\ now < MaxApiOps
  /\ now' = now + 1
  /\ token' = ""
  /\ user' = ""
  /\ inflight' = <<>>
  /\ lastApi' = ApiCalled("restart", "ok", lastApi.expired)
  /\ UNCHANGED <<coordVars, tabVars, recVars, obsVars, uiVars, pageVars, domVars,
                 local, lastCall, waitVars, syncVars>>

InitApi == InitWith({<<>>})

NextApi ==
  \/ \E t \in Tokens : SetToken(t, "user")
  \/ ClearToken
  \/ IsAuthenticated
  \/ \E path \in {"/api/user", "/api/sync"} : Fetch(path)
  \/ \E status \in Statuses : \E i \in 1..Len(inflight) : Respond(i, status)
  \/ WorkerRestarts

SpecApi == InitApi /\ [][NextApi]_vars

\* neither the cache nor storage holds a token
LoggedOut == token = "" /\ local.steno_api_token = ""

\* C27: a 401 response to a fetch clears the cached token and user, removes the
\* token, user and last-synced entries from storage and throws 'Authentication
\* expired'; from then on, until setToken is called, isAuthenticated() is false and
\* every fetch throws 'Not authenticated' without sending a request.
C27_AutoLogout ==
  [][ /\ (now' # now /\ lastApi'.outcome = "Authentication expired")
         => /\ LoggedOut'
            /\ user' = ""
            /\ local'.steno_api_user = ""
            /\ local'.steno_last_synced_at = 0
      /\ (now' # now /\ lastApi'.expired)
         => /\ LoggedOut'
            /\ lastApi'.op = "isAuthenticated" => lastApi'.outcome = "false"
            /\ lastApi'.op = "fetch"
                 => (lastApi'.outcome = "Not authenticated" /\ inflight' = inflight) ]_vars

\* a fetch is refused after a 401, while another request is still unanswered
C27_RefusedAfterExpiry ==
  /\ lastApi.op = "fetch"
  /\ lastApi.outcome = "Not authenticated"
  /\ lastApi.expired
  /\ inflight # <<>>

-----------------------------------------------------------------------------
(* Finish without a session *)

\* a page that was reached by a navigation is left again
MaxRenavs == 2           \* navigations of a tab in one behaviour of SpecRenav

TabNavigatesAgain ==
  \E t \in ReplayTabs : \E host \in Hosts :
    /\ Quiet
    /\ navCount < MaxRenavs
    /\ Navigate(t, host)

NextRenav == Next \/ TabNavigatesAgain

SpecRenav == Init /\ [][NextRenav]_vars

\* C28: REPLAY_FINISHED handled while no session is active: the stored report
\* becomes the report the signal carries, with nothing of a report stored before,
\* and no session is created.
C28_FinishWithoutSession ==
  [][ (IsHead("REPLAY_FINISHED") /\ ~HasSession /\ toBg' = Tail(toBg))
        => /\ pendingReplayResults' /= <<>>
           /\ pendingReplayResults'[1].filled = Head(toBg).results.filled
           /\ pendingReplayResults'[1].clicked = Head(toBg).results.clicked
           /\ pendingReplayResults'[1].skipped = Head(toBg).results.skipped
           /\ pendingReplayResults'[1].warnings = Head(toBg).results.warnings
           /\ ~pendingReplayResults'[1].aborted
           /\ replayState' = <<>>
    ]_vars

\* a report was replaced by the one of a pass that finished after its session:
\* the replay went through more steps than the stored report counts
C28_Replaced ==
  /\ lastEvt = "finished_nosession"
  /\ HasReport
  /\ ~HasSession
  /\ Total(Report) > 0
  /\ processed > Total(Report)

-----------------------------------------------------------------------------
(* The waits of the content script *)

InitObs == InitWith({<<>>})

NextObs ==
  \/ WaitForElementCalled(ElementWaitMs)
  \/ \E quietMs \in {ClickQuietMs, FillQuietMs} : WaitForDomSettleCalled(quietMs)
  \/ \E kind \in {"childList", "attributes"} : \E after \in BOOLEAN : Mutates(kind, after)
  \/ ClockTicks
  \/ WaitTimerFires

SpecObs == InitObs /\ [][NextObs]_vars

\* time goes by and a timer that is due fires; the page is under no obligation
FairObs == SpecObs /\ WF_vars(ClockTicks) /\ WF_vars(WaitTimerFires)

\* waitForElement at any moment: at most one resolution and no observer connected
\* after it; right after the call it has resolved, with the element, exactly when
\* the element was present, and no observer was made then; right after an observed
\* mutation it has resolved, with the element, exactly when the selector matches;
\* null only with the timeout elapsed
ElementWaitState ==
  wait.fn = "waitForElement" =>
    /\ Len(wait.resolutions) <= 1
    /\ wait.resolutions # <<>> => wait.observer # "connected"
    /\ wait.resolutions = <<>> => (wait.observer = "connected" /\ wait.timer >= 0)
    /\ wait.last = "called"
         => /\ wait.resolutions = IF present THEN <<"element">> ELSE <<>>
            /\ present => (wait.observer = "none" /\ wait.timer < 0)
    /\ wait.last = "observed"
         => wait.resolutions = IF present THEN <<"element">> ELSE <<>>
    /\ wait.resolutions = <<"null">> => (wait.timer < 0 /\ wait.elapsed = Ticks(wait.ms))

\* C29: waitForElement returns the element at once when it is present; otherwise it
\* resolves exactly once, with the element at the first observed mutation after
\* which the selector matches or with null when the timeout has elapsed; once it
\* has resolved its observer is not connected.
C29_ElementWait ==
  /\ []ElementWaitState
  /\ (wait.fn = "waitForElement" /\ wait.resolutions = <<>>) ~> (wait.resolutions # <<>>)

\* the element appeared while waitForElement waited, and the timer that was left
\* pending has fired since without resolving again
C29_FoundThenTimerFired ==
  /\ wait.fn = "waitForElement"
  /\ wait.resolutions = <<"element">>
  /\ wait.observer = "disconnected"
  /\ wait.timer < 0
  /\ wait.elapsed = Ticks(ElementWaitMs)

\* waitForDomSettle at any moment: at most one resolution; resolved only with the
\* observer disconnected and a full window gone by since the last observed mutation,
\* or since the call when there was none; right after an observed mutation the
\* whole window is ahead again
SettleState ==
  wait.fn = "waitForDomSettle" =>
    /\ Len(wait.resolutions) <= 1
    /\ wait.resolutions # <<>>
         => /\ wait.observer = "disconnected"
            /\ wait.timer < 0
            /\ wait.quiet = Ticks(wait.ms)
            /\ ~wait.mutated => wait.elapsed = Ticks(wait.ms)
    /\ wait.resolutions = <<>>
         => /\ wait.observer = "connected"
            /\ wait.timer = Ticks(wait.ms) - wait.quiet
    /\ wait.last = "observed" => (wait.timer = Ticks(wait.ms) /\ wait.resolutions = <<>>)

\* C30: waitForDomSettle(w) resolves once and no more, and only when no mutation was
\* observed during the w ms before; every observed mutation restarts the window, so
\* the wait resolves unless another mutation is observed first; without a mutation
\* it resolves w ms after the call; its observer is disconnected when it resolves.
C30_QuiescenceWait ==
  /\ []SettleState
  /\ (wait.fn = "waitForDomSettle" /\ wait.resolutions = <<>>)
       ~> (wait.resolutions # <<>> \/ wait.last = "observed")

\* waitForDomSettle has resolved a full window after a mutation it observed
C30_SettledAfterMutation ==
  /\ wait.fn = "waitForDomSettle"
  /\ wait.resolutions = <<"settled">>
  /\ wait.mutated
  /\ wait.quiet = Ticks(wait.ms)
  /\ wait.observer = "disconnected"

-----------------------------------------------------------------------------
(* setValue on one element *)

InitFill == InitWith({<<>>})

NextFill ==
  \/ \E e \in FillElements : ElementResolved(e)
  \/ \E type \in {"checkbox", "radio", "select", "text", "textarea", "date",
                  "unknown"} :
       \E value \in StepValues(type) : SetValueCalled(value, type)

SpecFill == InitFill /\ [][NextFill]_vars

Count(events, e) == Cardinality({ n \in 1..Len(events) : events[n] = e })

\* C31: a fill sets the element's state and dispatches its events in the order
\* of the type: change before input for a checkbox whose state changes, a radio
\* and a select; for every other type the value is set and input is dispatched
\* before change; no event is dispatched twice and no call fails
C31_EventOrder ==
  fillCall.n > 0 =>
    /\ ~fillCall.threw
    /\ \A e \in {"input", "change"} : Count(fillCall.events, e) <= 1
    /\ (fillCall.type = "checkbox" /\ fillCall.before.checked /= fillCall.value)
         => /\ fillEl.checked = fillCall.value
            /\ fillCall.events = <<"change", "input">>
    /\ fillCall.type = "radio"
         => fillEl.checked /\ fillCall.events = <<"change", "input">>
    /\ fillCall.type = "select"
         => /\ fillEl.value = fillCall.value
            /\ fillCall.events = <<"change", "input">>
    /\ fillCall.type \notin {"checkbox", "radio", "select"}
         => /\ fillEl.value = fillCall.value
            /\ fillCall.events = <<"input", "change">>

-----------------------------------------------------------------------------
(* Reinjection of the content script on resume *)

\* CONTINUE_REPLAY of timer k reaches its tab: replayScript(fields, startIndex)
ContinueSent(k) ==
  passes' = [passes EXCEPT ![timers[k].tabId] =
               Append(@, NewPass(timers[k].steps, timers[k].startIndex))]

\* a step in which some tab gets a pass that starts behind the first step
ContinuationStarts ==
  \E t \in AllTabs :
    /\ Len(passes'[t]) = Len(passes[t]) + 1
    /\ passes'[t][Len(passes'[t])].startIndex > 0
    /\ passes'[t][Len(passes'[t])].log = <<>>

\* C32: when the probe of a resume fails the coordinator only reinjects; when
\* the reinjection is over it either sends CONTINUE_REPLAY with the steps and
\* the start index of the resume and keeps the session, or, the reinjection
\* having failed, discards the session and sends nothing; and every
\* CONTINUE_REPLAY uses up the resume of one navigation-complete signal
C32_ReinjectThenContinue ==
  [][ /\ \A k \in 1..Len(timers) :
           /\ ( /\ timers[k].stage = "timer"
                /\ timers' = [timers EXCEPT ![k].stage = "inject"] )
                => (passes' = passes /\ toBg' = toBg /\ replayState' = replayState)
           /\ ( /\ timers[k].stage = "inject"
                /\ timers' = RemoveAt(timers, k) )
                => \/ ContinueSent(k) /\ replayState' = replayState
                   \/ passes' = passes /\ toBg' = toBg /\ replayState' = <<>>
      /\ ContinuationStarts
           => \E k \in 1..Len(timers) :
                timers' = RemoveAt(timers, k) /\ ContinueSent(k)
    ]_vars

\* a resume was continued after a reinjection
C32_Reinjected ==
  /\ lastEvt = "continue_sent_reinjected"
  /\ \E t \in AllTabs : \E p \in 1..Len(passes[t]) : passes[t][p].startIndex > 0

-----------------------------------------------------------------------------
(* The results a pass returns *)

CountKind(log, kind) ==
  Cardinality({ n \in 1..Len(log) : log[n].kind = kind })

\* the step sends REPLAY_FINISHED
FinishedSent ==
  /\ Len(toBg') > 0
  /\ toBg'[Len(toBg')].type = "REPLAY_FINISHED"
  /\ \/ Len(toBg') > Len(toBg)
     \/ passes' /= passes

\* the pass that returns in the step, or none when replayScript returned
\* without having waited for an element
Returning ==
  { tp \in { <<t, p>> : t \in AllTabs, p \in 1..MaxReplays + MaxNavs + 1 } :
      /\ tp[2] <= Len(passes[tp[1]])
      /\ passes'[tp[1]] = RemoveAt(passes[tp[1]], tp[2])
      /\ toBg'[Len(toBg')].tab = tp[1] }

\* what replayScript(fields, startIndex) must return for what the pass has done
ReturnsRight(pass, r) ==
  LET left == Len(pass.sorted) - pass.startIndex IN
  /\ Total(r) = (IF left > 0 THEN left ELSE 0)
  /\ Len(r.warnings) = r.skipped
  /\ r.filled = CountKind(pass.log, "fill")
  /\ r.clicked = CountKind(pass.log, "click")
  /\ r.filled <= Cardinality({ k \in pass.startIndex + 1..Len(pass.sorted) :
                                 pass.sorted[k].action = "fill" })
  /\ r.clicked <= Cardinality({ k \in pass.startIndex + 1..Len(pass.sorted) :
                                  pass.sorted[k].action = "click" })
  /\ r.lastIndex = (IF left > 0 THEN Len(pass.sorted) - 1 ELSE pass.startIndex)

\* C33: when a pass returns, filled + clicked + skipped is the number of steps
\* from the start index on, there is one warning per skipped step, filled and
\* clicked count the fill and click steps whose element was found, and
\* lastIndex is the index of the last step processed, the start index if none
C33_ResultCounts ==
  [][ FinishedSent =>
        LET r == toBg'[Len(toBg')].results IN
        \/ \E tp \in Returning : ReturnsRight(passes[tp[1]][tp[2]], r)
        \/ /\ passes' = passes
           /\ r = NewPass(<<>>, 0).results
           /\ script = <<>>
    ]_vars

\* a continuation has returned with a step filled or clicked and none skipped
C33_ContinuationReturned ==
  \E n \in 1..Len(toBg) :
    /\ toBg[n].type = "REPLAY_FINISHED"
    /\ toBg[n].results.lastIndex > 0
    /\ toBg[n].results.skipped = 0
    /\ Total(toBg[n].results) = 1

-----------------------------------------------------------------------------
(* The steps of one replay over its passes *)

\* C34: within one replay, the first pass and its continuations, no index of
\* the sorted steps is processed twice
C34_NoStepTwice ==
  \A a, b \in 1..Len(stepLog) : a /= b => stepLog[a] /= stepLog[b]

-----------------------------------------------------------------------------
(* Progress of a session over two navigations *)

MaxProgressSteps == 3    \* steps of the scripts of SpecProgress

\* scripts stored in order
InitProgress ==
  InitWith({ InOrder(a) : a \in [1..MaxProgressSteps -> StepActions] })

SpecProgress == InitProgress /\ [][NextRenav]_vars

\* C35: while one session lasts, lastCompletedIndex never decreases, and it is
\* at least -1 and less than the number of steps
C35_MonotonicProgress ==
  [][ (HasSession /\ HasSession' /\ ~IsHead("REPLAY_STARTED"))
        => /\ Session.lastCompletedIndex <= replayState'[1].lastCompletedIndex
           /\ -1 <= replayState'[1].lastCompletedIndex
           /\ replayState'[1].lastCompletedIndex < Len(replayState'[1].steps)
    ]_vars

-----------------------------------------------------------------------------
(* The report of a replay within one page *)

\* C36: when a replay that involved no navigation finishes, the stored report
\* holds the counts and warnings of that replay's own results, whatever report
\* was stored before
C36_FreshReport ==
  [][ (IsHead("REPLAY_FINISHED") /\ toBg' = Tail(toBg))
        => /\ pendingReplayResults' /= <<>>
           /\ pendingReplayResults'[1].filled = Head(toBg).results.filled
           /\ pendingReplayResults'[1].clicked = Head(toBg).results.clicked
           /\ pendingReplayResults'[1].skipped = Head(toBg).results.skipped
           /\ pendingReplayResults'[1].warnings = Head(toBg).results.warnings
    ]_vars

-----------------------------------------------------------------------------
(* Replays in two tabs *)

\* the popup is opened over the other tab and Fill is pressed there
OtherTabReplay ==
  \E t \in AllTabs \ ReplayTabs :
    /\ Quiet
    /\ replayCount < MaxReplays
    /\ passes[t] = <<>> /\ ~tabLoading[t]
    /\ StartReplay(t, script)

NextTabs == NextPass \/ OtherTabReplay

SpecTabs == InitPass /\ [][NextTabs]_vars

\* C37: a REPLAY_STARTED, REPLAY_PROGRESS or REPLAY_FINISHED signal sent from
\* another tab than the session's leaves the session as it is
C37_TabIsolation ==
  [][ ( /\ HasSession
        /\ toBg /= <<>>
        /\ Head(toBg).type \in {"REPLAY_STARTED", "REPLAY_PROGRESS",
                                "REPLAY_FINISHED"}
        /\ Head(toBg).tab /= Session.tabId
        /\ toBg' = Tail(toBg) )
        => replayState' = replayState
    ]_vars

-----------------------------------------------------------------------------
(* StorageService calls that interleave at their awaits *)

MaxCalls == 2       \* calls in flight at once
MaxSyncOps == 3     \* the clock value up to which calls are started

CallIds == {1, 2}

\* saveScript without the free-tier checks (force, or a paid user): the list
\* it writes for the list it read
Saved(allScripts, scr, at) ==
  LET fullIndex == FindIndex(allScripts, scr.id)
      liveIndex == FindIndex(Live(allScripts), scr.id)
  IN IF liveIndex > 0
     THEN [allScripts EXCEPT ![fullIndex] = [scr EXCEPT !.updated_at = at]]
     ELSE Append(allScripts, [scr EXCEPT !.created_at = at, !.updated_at = at])

\* deleteScript: the list it writes for the list it read
Deleted(allScripts, id, at) ==
  LET index == FindIndex(allScripts, id) IN
  IF index > 0
  THEN [allScripts EXCEPT ![index].deleted_at = at, ![index].updated_at = at]
  ELSE allScripts

\* const allScripts = await this._readChunked() of saveScript or deleteScript
CallReads(op, id) ==
  /\ now < MaxSyncOps
  /\ Len(calls) < MaxCalls
  /\ calls' = Append(calls, [op |-> op, id |-> id, read |-> ReadChunked(local)])
  /\ UNCHANGED <<coordVars, tabVars, recVars, obsVars, uiVars, pageVars, domVars,
                 storeVars, apiVars, waitVars, stopSent>>

\* await this._writeChunked(allScripts) of the call
CallWrites(k) ==
  LET c       == calls[k]
      written == IF c.op = "saveScript"
                 THEN Saved(c.read, Entry(c.id, 1, 1, 0), now')
                 ELSE Deleted(c.read, c.id, now')
  IN
  /\ c.op \in {"saveScript", "deleteScript"}
  /\ now' = now + 1
  /\ local' = WriteChunked(local, written)
  /\ lastCall' = Called(c.op, c.id, FALSE, FALSE, <<written>>)
  /\ calls' = RemoveAt(calls, k)
  /\ UNCHANGED <<coordVars, tabVars, recVars, obsVars, uiVars, pageVars, domVars,
                 apiVars, waitVars, stopSent>>

\* sync() of an authenticated user has read the payload, soft-deleted items
\* included, and ApiService.sync is in flight
SyncReads ==
  /\ now < MaxSyncOps
  /\ Len(calls) < MaxCalls
  /\ \A k \in 1..Len(calls) : calls[k].op /= "sync"
  /\ calls' = Append(calls, [op |-> "sync", id |-> 0, read |-> ReadChunked(local)])
  /\ UNCHANGED <<coordVars, tabVars, recVars, obsVars, uiVars, pageVars, domVars,
                 storeVars, apiVars, waitVars, stopSent>>

\* what the server answers: nothing new, or a script of another device
ServerScripts == { <<>>, <<Entry(3, 1, 1, 1)>> }

\* _mergeServerScripts: the newer of two versions wins, unknown ids are added
RECURSIVE MergeServerScripts(_, _)
MergeServerScripts(localScripts, serverScripts) ==
  IF serverScripts = <<>> THEN localScripts
  ELSE LET s      == Head(serverScripts)
           idx    == FindIndex(localScripts, s.id)
           merged == IF idx > 0
                     THEN IF s.updated_at > localScripts[idx].updated_at
                          THEN [localScripts EXCEPT ![idx] = s]
                          ELSE localScripts
                     ELSE Append(localScripts, s)
       IN MergeServerScripts(merged, Tail(serverScripts))

\* _purgeConfirmedDeleted: allScripts.filter((s) => !s.deleted_at)
PurgeConfirmedDeleted(allScripts) == Live(allScripts)

\* ApiService.sync resolved: the merge, then the purge, both on what storage
\* holds by then
SyncSucceeds(k, serverScripts) ==
  LET merged  == MergeServerScripts(ReadChunked(local), serverScripts)
      written == PurgeConfirmedDeleted(merged)
  IN
  /\ calls[k].op = "sync"
  /\ local' = WriteChunked(local, written)
  /\ lastCall' = Called("sync", 0, FALSE, FALSE, <<written>>)
  /\ calls' = RemoveAt(calls, k)
  /\ UNCHANGED <<coordVars, tabVars, recVars, obsVars, uiVars, pageVars, domVars,
                 now, apiVars, waitVars, stopSent>>

\* ApiService.sync rejected: catch (err) { return { ok: false, ... } }
SyncFails(k) ==
  /\ calls[k].op = "sync"
  /\ lastCall' = Called("sync", 0, FALSE, TRUE, <<>>)
  /\ calls' = RemoveAt(calls, k)
  /\ UNCHANGED <<coordVars, tabVars, recVars, obsVars, uiVars, pageVars, domVars,
                 local, now, apiVars, waitVars, stopSent>>

InitSync == InitWith({<<>>})

NextSync ==
  \/ \E op \in {"saveScript", "deleteScript"} : \E id \in CallIds : CallReads(op, id)
  \/ \E k \in 1..MaxCalls : k <= Len(calls) /\ CallWrites(k)
  \/ SyncReads
  \/ \E k \in 1..MaxCalls : \E serverScripts \in ServerScripts :
       k <= Len(calls) /\ SyncSucceeds(k, serverScripts)
  \/ \E k \in 1..MaxCalls : k <= Len(calls) /\ SyncFails(k)

SpecSync == InitSync /\ [][NextSync]_vars

\* the step ends the sync call k
SyncEnds(k) ==
  /\ k <= Len(calls)
  /\ calls[k].op = "sync"
  /\ calls' = RemoveAt(calls, k)

HasEntry(list, id) == \E n \in 1..Len(list) : list[n].id = id

\* C38: a sync removes a soft-deleted item from storage only if its payload
\* held the item with that deleted_at, so an item deleted while the request
\* was in flight stays; a failed sync leaves storage as it was
C38_PurgeOnlyConfirmed ==
  [][ \A k \in 1..MaxCalls :
        SyncEnds(k) =>
          /\ lastCall'.threw => local' = local
          /\ \A n \in 1..Len(ReadChunked(local)) :
               LET e == ReadChunked(local)[n] IN
               (e.deleted_at /= 0 /\ ~HasEntry(ReadChunked(local'), e.id))
                 => \E m \in 1..Len(calls[k].read) :
                      /\ calls[k].read[m].id = e.id
                      /\ calls[k].read[m].deleted_at = e.deleted_at
    ]_vars

\* the step in which saveScript or deleteScript call k writes its list
WriteEnds(k) ==
  /\ k <= Len(calls)
  /\ calls[k].op \in {"saveScript", "deleteScript"}
  /\ calls' = RemoveAt(calls, k)

\* C39: no lost update: a saveScript or deleteScript call that writes its list
\* leaves every stored script other than its own as it is stored, so that no
\* script saved and no deletion made by another call is dropped
C39_NoLostUpdate ==
  [][ \A k \in 1..MaxCalls :
        WriteEnds(k) =>
          \A n \in 1..Len(ReadChunked(local)) :
            LET e == ReadChunked(local)[n] IN
            e.id /= calls[k].id
              => \E m \in 1..Len(ReadChunked(local')) : ReadChunked(local')[m] = e
    ]_vars

-----------------------------------------------------------------------------
(* The overlay's stop button, with the answer to STOP_RECORDING awaited *)

MaxStops == 1       \* STOP_RECORDING messages of the overlay handler in flight

\* OVERLAY_STOP_CLICKED from the HUD of the tab the user looks at:
\* chrome.tabs.sendMessage(tabId,
\* {type: 'STOP_RECORDING'}, callback) to the tab the service worker has
\* recorded as recording
OverlayStopClicked(t) ==
  /\ recording[t]
  /\ t = activeTab
  /\ popupView = "closed"
  /\ recordingTabId /= 0
  /\ Len(stopSent) < MaxStops
  /\ stopSent' = Append(stopSent, recordingTabId)
  /\ UNCHANGED <<coordVars, tabVars, recVars, obsVars, uiVars, pageVars, domVars,
                 storeVars, apiVars, waitVars, calls>>

\* the tab has handled STOP_RECORDING and the callback runs with its response
StopRecordingAnswered ==
  /\ stopSent /= <<>>
  /\ Stopped(Head(stopSent))
  /\ pendingFields' = <<capturedFields[Head(stopSent)]>>
  /\ recordingTabId' = 0
  /\ capturedFieldCount' = 0
  /\ stopSent' = Tail(stopSent)
  /\ UNCHANGED <<replayState, pendingReplayResults, timers, toBg, tabVars,
                 eventCount, obsVars, pageVars, domVars, storeVars, apiVars,
                 waitVars, calls, activeTab, popupView, popupFields>>

OverlayPageStep ==
  \E t \in AllTabs :
    \/ Quiet /\ SwitchTab(t)
    \/ Quiet /\ OverlayStopClicked(t)
    \/ \E el \in Elements : \E v \in Values :
         Quiet /\ eventCount < MaxUiEvents /\ OnInput(t, el, v)
    \/ \E el \in Elements :
         Quiet /\ eventCount < MaxUiEvents /\ OnClickCapture(t, el)

NextOverlay ==
  \/ OnStepCaptured
  \/ PopupStep
  \/ OverlayPageStep
  \/ Quiet /\ StopRecordingAnswered

SpecOverlay == InitUi /\ [][NextOverlay]_vars

\* the step in which the callback of the overlay handler runs
StopAnswered == stopSent /= <<>> /\ stopSent' = Tail(stopSent)

\* C40: when the overlay stop has been handled to completion the service
\* worker is not recording and pendingFields is the buffer the tab returned;
\* the next popup init takes pendingFields into the save view and clears it;
\* and a recording started in another tab after the stop was clicked stays
\* the recording of the service worker
C40_OverlayHandOff ==
  [][ /\ StopAnswered
        => /\ pendingFields' = <<returned'[Head(stopSent)]>>
           /\ IF recordingTabId \in {0, Head(stopSent)}
              THEN recordingTabId' = 0 /\ capturedFieldCount' = 0
              ELSE /\ recordingTabId' = recordingTabId
                   /\ capturedFieldCount' = capturedFieldCount
      /\ (popupView = "closed" /\ popupView' /= "closed" /\ pendingFields /= <<>>)
        => /\ popupView' = "save"
           /\ popupFields' = pendingFields[1]
           /\ pendingFields' = <<>>
    ]_vars

====
